---- MODULE Spec2Model ----
(***************************************************************************)
(* Model of the ingestion job pipeline of personal-RAG:                    *)
(*   app/services/ingest_queue.py  (job store, process_job, the gate)      *)
(*   app/services/file_storage.py  (staged upload directory)               *)
(* The external collaborators (parse_file, the namespace classifier, the   *)
(* embedder, upsert_vectors, shutil.rmtree) are modelled by their possible *)
(* outcomes: a returned value or a raised exception.                       *)
(***************************************************************************)
EXTENDS Integers, Sequences, FiniteSets, TLC

\* ---------------------------------------------------------------- bounds
MaxJobs == 2      \* job ids handed out by the intake
MaxTasks == 2     \* process_job_with_limit coroutines ever scheduled
MaxChunks == 2    \* chunks a staged document parses into

JobIds == 1..MaxJobs
Tasks == 1..MaxTasks

\* ------------------------------------------------------- optional values
\* Python's None / Optional[T]: None is the empty tuple, a value is <<v>>.
None == <<>>
Some(v) == <<v>>

\* ------------------------------------------------------------ exceptions
Exc(type, msg) == [type |-> type, msg |-> msg]

NoFilePathError == Exc("ValueError", "No file path available for processing.")
NoIndexError == Exc("ValueError", "No index name specified.")
FileMissingError == Exc("ValueError", "File does not exist")
EmptyFileError == Exc("ValueError", "File is empty")
NoContentError == Exc("ValueError", "No content extracted")
FallbackAttributeError == Exc("AttributeError", "PROFESSIONAL_LIFE")
EmbedRateLimitError == Exc("RateLimitError", "Rate limit exceeded")
UpsertPineconeError == Exc("PineconeException", "upsert failed")
CleanupOSError == Exc("OSError", "Directory not empty")

CountMismatchError(expected, got) ==
    Exc("ValueError",
        "Embedding count mismatch: expected " \o ToString(expected)
            \o " vectors, got " \o ToString(got) \o ".")

\* ------------------------------------------------------------ namespaces
Namespace == {"projects", "experience", "personal", "education", "about_rag"}

RoutingMode == {"auto", "manual", "per_chunk"}

\* ------------------------------------------------------------- job record
PipelineOrder == <<"queued", "chunking", "routing", "embedding", "upserting", "completed">>

IngestJobRecord(file_path, metadata) ==
    [status |-> "queued",
     file_path |-> file_path,
     metadata |-> metadata,
     error |-> None,
     chunks_processed |-> None]

\* the staged path save_uploaded_file returns for a job: UPLOADS_DIR/job_id/filename
StagedPath(job_id) == <<"rag-uploads", job_id>>

VARIABLES
    JOB_STORE,            \* job id -> IngestJobRecord
    JOB_QUEUE,            \* list of job ids
    PROCESSING_SEMAPHORE, \* value of the asyncio.Semaphore
    files,                \* staged path -> number of chunks its content parses into
    pc,                   \* task -> position in process_job_with_limit / process_job
    arg,                  \* task -> job_id argument
    loc,                  \* task -> locals of process_job
    calls,                \* task -> external calls made by this invocation
    router,               \* namespace_router module state and its last call
    embedder,             \* one embed_texts_batched call in progress
    upserter,             \* one upsert_vectors call in progress
    built,                \* vector records assembled so far
    api,                  \* the last call of the intake and status endpoints
    snapshot,             \* one record written by process_job while a reader reads it
    locks                 \* JOB_STORE_LOCK and the threads that take it

\* the state of the job pipeline, and the state of the collaborators when
\* each is exercised on its own
pipeline_vars == <<JOB_STORE, JOB_QUEUE, PROCESSING_SEMAPHORE, files, pc, arg, loc, calls>>
client_vars == <<router, embedder, upserter, built, api, snapshot, locks>>
vars == <<JOB_STORE, JOB_QUEUE, PROCESSING_SEMAPHORE, files, pc, arg, loc, calls,
          router, embedder, upserter, built, api, snapshot, locks>>

NoLocals ==
    [entry |-> None,            \* the record as found by JOB_STORE.get(job_id)
     chunks |-> <<>>,
     docling |-> None,          \* what Docling made of the document
     chunk_namespaces |-> <<>>,
     groups |-> <<>>,           \* vectors_by_namespace, in insertion order
     next_group |-> 1,
     embeddings |-> None,       \* len(embeddings) once embed_texts_batched returned
     exc |-> None,
     outcome |-> "running"]     \* "running", "returned" or "raised"

NoCalls ==
    [parse |-> 0, classify |-> 0, fallbacks |-> 0, embed |-> 0, upsert |-> 0,
     cleanup |-> 0, vectors |-> 0]

\* the pipeline after module import: empty store and queue, a free slot
PipelineInit ==
    /\ JOB_STORE = <<>>
    /\ JOB_QUEUE = <<>>
    /\ PROCESSING_SEMAPHORE = 1
    /\ files = <<>>
    /\ pc = [t \in Tasks |-> "idle"]
    /\ arg = [t \in Tasks |-> 0]
    /\ loc = [t \in Tasks |-> NoLocals]
    /\ calls = [t \in Tasks |-> NoCalls]

\* the collaborators before any call of theirs is followed step by step
ClientsIdle ==
    /\ router = "idle"
    /\ embedder = "idle"
    /\ upserter = "idle"
    /\ built = {}
    /\ api = "idle"
    /\ snapshot = "idle"
    /\ locks = "idle"

Init ==
    /\ PipelineInit
    /\ ClientsIdle

\* ------------------------------------------------------------ dict access
\* dict.get(key, default) on a metadata map whose keys are its DOMAIN
Get(m, key, default) == IF key \in DOMAIN m THEN m[key] ELSE default

\* ------------------------------------------------------ add_file_to_queue
\* record_metadata: "index" and "routing_mode" always, "namespace" only if truthy
RecordMetadata(namespace, index, routing_mode) ==
    IF namespace # ""
    THEN [index |-> index, routing_mode |-> routing_mode, namespace |-> namespace]
    ELSE [index |-> index, routing_mode |-> routing_mode]

\* The requests the intake is driven with: each routing mode with a staged
\* file and an index (a namespace accompanies manual mode only), and the
\* requests that lack the file path, the index, or both.
Request(has_path, index, routing_mode, namespace) ==
    [has_path |-> has_path, index |-> index,
     routing_mode |-> routing_mode, namespace |-> namespace]
Requests ==
    {Request(TRUE, "portfolio", "manual", "projects"),
     Request(TRUE, "portfolio", "auto", ""),
     Request(TRUE, "portfolio", "per_chunk", ""),
     Request(FALSE, "portfolio", "auto", ""),
     Request(TRUE, "", "auto", ""),
     Request(FALSE, "", "manual", "projects")}

\* Job ids are fresh uuid4 values: the next unused id.
FreshJobId == Cardinality(DOMAIN JOB_STORE) + 1

\* save_uploaded_file (when a path is given) followed by add_file_to_queue
AddFileToQueue(job_id, r, content) ==
    /\ job_id = FreshJobId
    /\ UNCHANGED client_vars
    /\ job_id \in JobIds
    /\ LET file_path == IF r.has_path THEN StagedPath(job_id) ELSE None
           record == IngestJobRecord(file_path,
                                     RecordMetadata(r.namespace, r.index, r.routing_mode))
       IN /\ JOB_STORE' = [j \in DOMAIN JOB_STORE \cup {job_id} |->
                              IF j = job_id THEN record ELSE JOB_STORE[j]]
          /\ JOB_QUEUE' = Append(JOB_QUEUE, job_id)
          /\ files' = IF r.has_path
                      THEN [p \in DOMAIN files \cup {file_path} |->
                               IF p = file_path THEN content ELSE files[p]]
                      ELSE files
    /\ UNCHANGED <<PROCESSING_SEMAPHORE, pc, arg, loc, calls>>

\* ------------------------------------------------- process_job_with_limit
\* background_tasks.add_task(process_job_with_limit, job_id): the coroutine
\* is created and waits for the processing slot.  Tasks are numbered in the
\* order they are scheduled.
Schedule(t, job_id) ==
    /\ pc[t] = "idle"
    /\ UNCHANGED client_vars
    /\ \A u \in Tasks : u < t => pc[u] # "idle"
    /\ pc' = [pc EXCEPT ![t] = "waiting"]
    /\ arg' = [arg EXCEPT ![t] = job_id]
    /\ UNCHANGED <<JOB_STORE, JOB_QUEUE, PROCESSING_SEMAPHORE, files, loc, calls>>

\* a gate created with capacity two instead of one
SemaphoreAvailable_CapacityTwo == PROCESSING_SEMAPHORE > -1

\* asyncio.Semaphore.acquire does not block while the value is positive
SemaphoreAvailable == PROCESSING_SEMAPHORE > 0

\* async with _PROCESSING_SEMAPHORE: enter
Acquire(t) ==
    /\ pc[t] = "waiting"
    /\ UNCHANGED client_vars
    /\ SemaphoreAvailable
    /\ PROCESSING_SEMAPHORE' = PROCESSING_SEMAPHORE - 1
    /\ pc' = [pc EXCEPT ![t] = "load"]
    /\ UNCHANGED <<JOB_STORE, JOB_QUEUE, files, arg, loc, calls>>

\* an exit from the async with block that keeps the slot
SemaphoreReleased_Kept(value) == value

\* asyncio.Semaphore.release
SemaphoreReleased(value) == value + 1

\* async with _PROCESSING_SEMAPHORE: exit, after run_in_executor has returned;
\* the coroutine ends and its frame is discarded
Release(t) ==
    /\ pc[t] = "release"
    /\ UNCHANGED client_vars
    /\ PROCESSING_SEMAPHORE' = SemaphoreReleased(PROCESSING_SEMAPHORE)
    /\ pc' = [pc EXCEPT ![t] = "done"]
    /\ arg' = [arg EXCEPT ![t] = 0]
    /\ loc' = [loc EXCEPT ![t] = NoLocals]
    /\ calls' = [calls EXCEPT ![t] = NoCalls]
    /\ UNCHANGED <<JOB_STORE, JOB_QUEUE, files>>

\* ------------------------------------------------------------ process_job
\* a status update that writes the status into every stored record
UpdateStatus_EveryRecord(store, job_id, status) ==
    [j \in DOMAIN store |-> [store[j] EXCEPT !.status = status]]

\* _update_status: sets the status of the stored record, if there is one
UpdateStatus(store, job_id, status) ==
    IF job_id \in DOMAIN store
    THEN [store EXCEPT ![job_id].status = status]
    ELSE store

\* raise inside the try block: control goes to the except clause
Raise(t, e) ==
    /\ loc' = [loc EXCEPT ![t].exc = Some(e)]
    /\ pc' = [pc EXCEPT ![t] = "handler"]

\* a lookup that inserts a default record (dict.setdefault) instead of returning
ProcessJobLoad_CreatesRecord(t) ==
    /\ pc[t] = "load"
    /\ UNCHANGED client_vars
    /\ LET record == IngestJobRecord(None, RecordMetadata("", "", "auto"))
           store == IF arg[t] \in DOMAIN JOB_STORE
                    THEN JOB_STORE
                    ELSE [j \in DOMAIN JOB_STORE \cup {arg[t]} |->
                             IF j = arg[t] THEN record ELSE JOB_STORE[j]]
       IN /\ JOB_STORE' = store
          /\ loc' = [loc EXCEPT ![t].entry = Some(store[arg[t]])]
    /\ pc' = [pc EXCEPT ![t] = "validate"]
    /\ UNCHANGED <<JOB_QUEUE, PROCESSING_SEMAPHORE, files, arg, calls>>

\* with JOB_STORE_LOCK: record = JOB_STORE.get(job_id); return if None
ProcessJobLoad(t) ==
    /\ pc[t] = "load"
    /\ UNCHANGED client_vars
    /\ IF arg[t] \notin DOMAIN JOB_STORE
       THEN /\ pc' = [pc EXCEPT ![t] = "release"]
            /\ loc' = [loc EXCEPT ![t].outcome = "returned"]
       ELSE /\ pc' = [pc EXCEPT ![t] = "validate"]
            /\ loc' = [loc EXCEPT ![t].entry = Some(JOB_STORE[arg[t]])]
    /\ UNCHANGED <<JOB_STORE, JOB_QUEUE, PROCESSING_SEMAPHORE, files, arg, calls>>

InvalidRoutingModeError == Exc("ValueError", "not a valid RoutingMode")

\* the pre-flight checks without the index check
PreflightError_NoIndexCheck(record) ==
    IF record.file_path = None THEN Some(NoFilePathError) ELSE None

\* the checks made before the first status update; None when they pass
PreflightError(record) ==
    IF record.file_path = None
    THEN Some(NoFilePathError)
    ELSE IF Get(record.metadata, "routing_mode", "auto") \notin RoutingMode
    THEN Some(InvalidRoutingModeError)
    ELSE IF Get(record.metadata, "index", "") = ""
    THEN Some(NoIndexError)
    ELSE None

\* validation of file path and index, then _update_status(job_id, "chunking").
\* Job ids are never reused, so the record object the invocation holds is
\* the one stored under its job id.
ProcessJobValidate(t) ==
    /\ pc[t] = "validate"
    /\ UNCHANGED client_vars
    /\ LET e == PreflightError(JOB_STORE[arg[t]])
       IN IF e # None
          THEN /\ Raise(t, e[1])
               /\ UNCHANGED JOB_STORE
          ELSE /\ JOB_STORE' = UpdateStatus(JOB_STORE, arg[t], "chunking")
               /\ pc' = [pc EXCEPT ![t] = "parse"]
               /\ UNCHANGED loc
    /\ UNCHANGED <<JOB_QUEUE, PROCESSING_SEMAPHORE, files, arg, calls>>

\* str.strip() == "" on the texts and keys used here
IsBlank(text) == text \in {"", " "}

\* What Docling makes of a document that holds text for `content` chunks:
\* the chunks HybridChunker yields (all of them, or none for a document too
\* simple for it) and whether export_to_markdown has text.
DoclingResults(content) ==
    {[chunks |-> content, markdown |-> "text"],
     [chunks |-> 0, markdown |-> "text"],
     [chunks |-> 0, markdown |-> " "]}

\* a parser that returns the empty chunk list of the chunker as it is
ParseWithDocling_NoFallback(d) ==
    [raised |-> None, chunks |-> [i \in 1..d.chunks |-> i]]

\* _parse_with_docling: the chunks of the chunker, numbered from 1; without
\* chunks the single full-document chunk, or ValueError when the markdown
\* export is blank
ParseWithDocling(d) ==
    IF d.chunks > 0
    THEN [raised |-> None, chunks |-> [i \in 1..d.chunks |-> i]]
    ELSE IF IsBlank(d.markdown)
    THEN [raised |-> Some(NoContentError), chunks |-> <<>>]
    ELSE [raised |-> None, chunks |-> <<1>>]

\* parse_file: a missing file and a file without content raise ValueError,
\* otherwise what _parse_with_docling returns
ParseFile(path, d) ==
    IF path \notin DOMAIN files
    THEN [raised |-> Some(FileMissingError), chunks |-> <<>>]
    ELSE IF files[path] = 0
    THEN [raised |-> Some(EmptyFileError), chunks |-> <<>>]
    ELSE ParseWithDocling(d)

\* chunks = parse_file(record.file_path), then _update_status(job_id, "routing")
ProcessJobParse(t) ==
    /\ pc[t] = "parse"
    /\ UNCHANGED client_vars
    /\ calls' = [calls EXCEPT ![t].parse = @ + 1]
    /\ LET path == JOB_STORE[arg[t]].file_path
           content == IF path \in DOMAIN files THEN files[path] ELSE 0
       IN \E d \in IF content = 0 THEN {[chunks |-> 0, markdown |-> " "]}
                    ELSE DoclingResults(content) :
            LET r == ParseFile(path, d)
            IN IF r.raised # None
               THEN /\ Raise(t, r.raised[1])
                    /\ UNCHANGED JOB_STORE
               ELSE /\ JOB_STORE' = UpdateStatus(JOB_STORE, arg[t], "routing")
                    /\ loc' = [loc EXCEPT ![t].chunks = r.chunks,
                                          ![t].docling = Some(d)]
                    /\ pc' = [pc EXCEPT ![t] = "route"]
    /\ UNCHANGED <<JOB_QUEUE, PROCESSING_SEMAPHORE, files, arg>>

\* What one _call_llm_for_classification call yields: a member of Namespace,
\* or "fallback" when any of its fallback branches is taken.  Every fallback
\* branch evaluates Namespace.PROFESSIONAL_LIFE, which the enumeration does
\* not define, so the call raises AttributeError.
Fallback == "fallback"
ClassifierAnswers == {"projects", "personal"}
ClassifyOutcomes == ClassifierAnswers \cup {Fallback}

\* position of the first fallback in a sequence of outcomes, 0 if none
FirstFallback(res) ==
    IF \E i \in 1..Len(res) : res[i] = Fallback
    THEN CHOOSE i \in 1..Len(res) :
            /\ res[i] = Fallback
            /\ \A k \in 1..(i - 1) : res[k] # Fallback
    ELSE 0

\* routing by mode, then _update_status(job_id, "embedding").
\* did_last_call_use_fallback() is read only after the classifier has
\* returned; a call that falls back raises instead of returning, so the
\* flag read here is always False and the branch that would set
\* record.routing_fallback_used is never taken.
ProcessJobRoute(t) ==
    /\ pc[t] = "route"
    /\ UNCHANGED client_vars
    /\ LET meta == JOB_STORE[arg[t]].metadata
           mode == Get(meta, "routing_mode", "auto")
           n == Len(loc[t].chunks)
           Routed(ns, ncalls) ==
               /\ calls' = [calls EXCEPT ![t].classify = @ + ncalls]
               /\ loc' = [loc EXCEPT ![t].chunk_namespaces = ns]
               /\ JOB_STORE' = UpdateStatus(JOB_STORE, arg[t], "embedding")
               /\ pc' = [pc EXCEPT ![t] = "embed"]
           Failed(ncalls) ==
               /\ calls' = [calls EXCEPT ![t].classify = @ + ncalls,
                                         ![t].fallbacks = @ + 1]
               /\ Raise(t, FallbackAttributeError)
               /\ UNCHANGED JOB_STORE
       IN CASE mode = "manual" ->
                 Routed([i \in 1..n |-> Get(meta, "namespace", "")], 0)
            [] mode = "per_chunk" ->
                 \E res \in [1..n -> ClassifyOutcomes] :
                     IF FirstFallback(res) = 0
                     THEN Routed(res, n)
                     ELSE \* the calls after the raising one are never made
                          /\ \A i \in (FirstFallback(res) + 1)..n : res[i] = Fallback
                          /\ Failed(FirstFallback(res))
            [] OTHER ->
                 \E r \in ClassifyOutcomes :
                     IF r = Fallback
                     THEN Failed(1)
                     ELSE Routed([i \in 1..n |-> r], 1)
    /\ UNCHANGED <<JOB_QUEUE, PROCESSING_SEMAPHORE, files, arg>>

\* vectors_by_namespace: one vector per (chunk, embedding, namespace) triple
\* of the zip, appended to the group of its namespace; groups are kept in
\* the order their namespace first occurs (dict insertion order).
RECURSIVE GroupByNamespace(_, _, _)
GroupByNamespace(chunks, chunk_namespaces, groups) ==
    IF chunks = <<>> \/ chunk_namespaces = <<>>
    THEN groups
    ELSE LET namespace == Head(chunk_namespaces)
             vector == Head(chunks)
             known == \E g \in 1..Len(groups) : groups[g].namespace = namespace
             added ==
                 IF known
                 THEN [g \in 1..Len(groups) |->
                          IF groups[g].namespace = namespace
                          THEN [groups[g] EXCEPT !.vectors = Append(@, vector)]
                          ELSE groups[g]]
                 ELSE Append(groups, [namespace |-> namespace, vectors |-> <<vector>>])
         IN GroupByNamespace(Tail(chunks), Tail(chunk_namespaces), added)

\* zip(chunks, embeddings, chunk_namespaces) stops at the shortest argument
ZipLen(chunks, n_embeddings) ==
    IF Len(chunks) < n_embeddings THEN Len(chunks) ELSE n_embeddings

\* a count check that only notices missing vectors
CountMismatch_OnlyFewer(n_embeddings, n_chunks) == n_embeddings < n_chunks

\* len(embeddings) != len(chunks)
CountMismatch(n_embeddings, n_chunks) == n_embeddings # n_chunks

\* embed_texts_batched, the count check, _update_status(job_id, "upserting")
\* and the assembly of vectors_by_namespace
ProcessJobEmbed(t) ==
    /\ pc[t] = "embed"
    /\ UNCHANGED client_vars
    /\ calls' = [calls EXCEPT ![t].embed = @ + 1]
    /\ LET chunks == loc[t].chunks
           n == Len(chunks)
       IN \/ /\ Raise(t, EmbedRateLimitError)
             /\ UNCHANGED JOB_STORE
          \/ \E got \in {n, n + 1} :
                IF CountMismatch(got, n)
                THEN /\ loc' = [loc EXCEPT ![t].embeddings = Some(got),
                                           ![t].exc = Some(CountMismatchError(n, got))]
                     /\ pc' = [pc EXCEPT ![t] = "handler"]
                     /\ UNCHANGED JOB_STORE
                ELSE /\ JOB_STORE' = UpdateStatus(JOB_STORE, arg[t], "upserting")
                     /\ loc' = [loc EXCEPT
                                  ![t].embeddings = Some(got),
                                  ![t].groups =
                                      GroupByNamespace(SubSeq(chunks, 1, ZipLen(chunks, got)),
                                                       loc[t].chunk_namespaces, <<>>),
                                  ![t].next_group = 1]
                     /\ pc' = [pc EXCEPT ![t] = "upsert"]
    /\ UNCHANGED <<JOB_QUEUE, PROCESSING_SEMAPHORE, files, arg>>

\* an upsert loop that notes a failed group and goes on to the next one
ProcessJobUpsert_ContinuesAfterFailure(t) ==
    /\ pc[t] = "upsert"
    /\ UNCHANGED client_vars
    /\ IF loc[t].next_group > Len(loc[t].groups)
       THEN /\ pc' = [pc EXCEPT ![t] = "finish"]
            /\ UNCHANGED <<loc, calls>>
       ELSE LET group == loc[t].groups[loc[t].next_group]
                after == IF loc[t].next_group = Len(loc[t].groups)
                         THEN "finish" ELSE "upsert"
            IN \/ /\ calls' = [calls EXCEPT ![t].upsert = @ + 1,
                                            ![t].vectors = @ + Len(group.vectors)]
                  /\ loc' = [loc EXCEPT ![t].next_group = @ + 1]
                  /\ pc' = [pc EXCEPT ![t] = after]
               \/ /\ calls' = [calls EXCEPT ![t].upsert = @ + 1]
                  /\ loc' = [loc EXCEPT ![t].next_group = @ + 1,
                                        ![t].exc = Some(UpsertPineconeError)]
                  /\ pc' = [pc EXCEPT ![t] = after]
    /\ UNCHANGED <<JOB_STORE, JOB_QUEUE, PROCESSING_SEMAPHORE, files, arg>>

\* one iteration of: for namespace, vectors in vectors_by_namespace.items():
\*     upsert_vectors(index_name, namespace, vectors)
\* leaving the loop after the last group
ProcessJobUpsert(t) ==
    /\ pc[t] = "upsert"
    /\ UNCHANGED client_vars
    /\ IF loc[t].next_group > Len(loc[t].groups)
       THEN /\ pc' = [pc EXCEPT ![t] = "finish"]
            /\ UNCHANGED <<loc, calls>>
       ELSE LET group == loc[t].groups[loc[t].next_group]
            IN \/ /\ calls' = [calls EXCEPT ![t].upsert = @ + 1,
                                            ![t].vectors = @ + Len(group.vectors)]
                  /\ loc' = [loc EXCEPT ![t].next_group = @ + 1]
                  /\ pc' = [pc EXCEPT ![t] =
                               IF loc[t].next_group = Len(loc[t].groups)
                               THEN "finish" ELSE "upsert"]
               \/ /\ calls' = [calls EXCEPT ![t].upsert = @ + 1]
                  /\ Raise(t, UpsertPineconeError)
    /\ UNCHANGED <<JOB_STORE, JOB_QUEUE, PROCESSING_SEMAPHORE, files, arg>>

\* the count taken from the zero-based index of the last chunk
ChunksProcessed_OffByOne(chunks) == Len(chunks) - 1

\* the value stored in record.chunks_processed
ChunksProcessed(chunks) == Len(chunks)

\* record.chunks_processed = len(chunks)
ProcessJobFinish(t) ==
    /\ pc[t] = "finish"
    /\ UNCHANGED client_vars
    /\ JOB_STORE' = [JOB_STORE EXCEPT
                        ![arg[t]].chunks_processed = Some(ChunksProcessed(loc[t].chunks))]
    /\ pc' = [pc EXCEPT ![t] = "complete"]
    /\ UNCHANGED <<JOB_QUEUE, PROCESSING_SEMAPHORE, files, arg, loc, calls>>

\* a pipeline that goes on to cleanup without marking the job completed
ProcessJobComplete_StatusNotSet(t) ==
    /\ pc[t] = "complete"
    /\ UNCHANGED client_vars
    /\ UNCHANGED JOB_STORE
    /\ pc' = [pc EXCEPT ![t] = "cleanup"]
    /\ UNCHANGED <<JOB_QUEUE, PROCESSING_SEMAPHORE, files, arg, loc, calls>>

\* _update_status(job_id, "completed")
ProcessJobComplete(t) ==
    /\ pc[t] = "complete"
    /\ UNCHANGED client_vars
    /\ JOB_STORE' = UpdateStatus(JOB_STORE, arg[t], "completed")
    /\ pc' = [pc EXCEPT ![t] = "cleanup"]
    /\ UNCHANGED <<JOB_QUEUE, PROCESSING_SEMAPHORE, files, arg, loc, calls>>

\* the files left once shutil.rmtree(UPLOADS_DIR / job_id) has succeeded
RemoveJobDir(fs, job_id) ==
    [p \in DOMAIN fs \ {StagedPath(job_id)} |-> fs[p]]

\* cleanup_job_files(job_id): removes the job directory if it exists; rmtree
\* may raise OSError, having removed the staged file or not
ProcessJobCleanup(t) ==
    /\ pc[t] = "cleanup"
    /\ UNCHANGED client_vars
    /\ calls' = [calls EXCEPT ![t].cleanup = @ + 1]
    /\ \/ /\ files' = RemoveJobDir(files, arg[t])
          /\ loc' = [loc EXCEPT ![t].outcome = "returned"]
          /\ pc' = [pc EXCEPT ![t] = "release"]
       \/ /\ StagedPath(arg[t]) \in DOMAIN files
          /\ files' \in {files, RemoveJobDir(files, arg[t])}
          /\ Raise(t, CleanupOSError)
    /\ UNCHANGED <<JOB_STORE, JOB_QUEUE, PROCESSING_SEMAPHORE, arg>>

\* except Exception: every exception the pipeline raises derives from Exception
ExceptionTypes ==
    {"ValueError", "AttributeError", "RateLimitError", "PineconeException",
     "ConnectionError", "OSError", "RetryError"}
\* an except clause that names ValueError only
Catches_OnlyValueError(e) == e.type = "ValueError"

Catches(e) == e.type \in ExceptionTypes

\* a tenacity RetryError carries last_attempt; its result() re-raises the cause
Unwrap(e) ==
    IF "last_attempt" \in DOMAIN e /\ e.last_attempt # None
    THEN e.last_attempt[1]
    ELSE e

\* f"{type(actual_error).__name__}: {actual_error}"
ErrorMsg(e) == e.type \o ": " \o e.msg

\* the except clause: record.status = "failed"; record.error = error_msg
ProcessJobHandler(t) ==
    /\ pc[t] = "handler"
    /\ UNCHANGED client_vars
    /\ LET exc == loc[t].exc[1]
       IN IF Catches(exc)
          THEN /\ JOB_STORE' = [JOB_STORE EXCEPT
                                   ![arg[t]].status = "failed",
                                   ![arg[t]].error = Some(ErrorMsg(Unwrap(exc)))]
               /\ loc' = [loc EXCEPT ![t].outcome = "returned"]
          ELSE /\ loc' = [loc EXCEPT ![t].outcome = "raised"]
               /\ UNCHANGED JOB_STORE
    /\ pc' = [pc EXCEPT ![t] = "release"]
    /\ UNCHANGED <<JOB_QUEUE, PROCESSING_SEMAPHORE, files, arg, calls>>

\* ------------------------------------------------------------ specification
ProcessJob(t) ==
    \/ ProcessJobLoad(t)
    \/ ProcessJobValidate(t)
    \/ ProcessJobParse(t)
    \/ ProcessJobRoute(t)
    \/ ProcessJobEmbed(t)
    \/ ProcessJobUpsert(t)
    \/ ProcessJobFinish(t)
    \/ ProcessJobComplete(t)
    \/ ProcessJobCleanup(t)
    \/ ProcessJobHandler(t)

Next ==
    \/ \E job_id \in JobIds, r \in Requests, content \in 0..MaxChunks :
          /\ (~r.has_path) => content = 0
          /\ (r.has_path /\ r.index = "") => content = 1
          /\ AddFileToQueue(job_id, r, content)
    \/ \E t \in Tasks, job_id \in JobIds : Schedule(t, job_id)
    \/ \E t \in Tasks : Acquire(t)
    \/ \E t \in Tasks : ProcessJob(t)
    \/ \E t \in Tasks : Release(t)

Spec == Init /\ [][Next]_vars

\* ------------------------------------------------------------------ claims
BodyPcs ==
    {"load", "validate", "parse", "route", "embed", "upsert",
     "finish", "complete", "cleanup", "handler"}

\* the task holds the processing slot: inside process_job, or returned from
\* it and about to leave the async with block
Holding(t) == pc[t] \in BodyPcs \cup {"release"}

Terminal == {"completed", "failed"}
Processing == {"chunking", "routing", "embedding", "upserting"}

Ordered(status) == \E i \in 1..Len(PipelineOrder) : PipelineOrder[i] = status
Rank(status) == CHOOSE i \in 1..Len(PipelineOrder) : PipelineOrder[i] = status

\* C1: at every instant at most one process_job_with_limit task is between
\* acquiring and releasing the processing semaphore.
C1_SingleFlight == Cardinality({t \in Tasks : Holding(t)}) <= 1

\* C1 witness: one task runs the pipeline of a job while a task for another
\* job waits for the slot.
C1_Witness ==
    \E t, u \in Tasks :
        /\ pc[t] \in BodyPcs \ {"load"}
        /\ pc[u] = "waiting"
        /\ arg[t] # arg[u]

\* C2: no step moves a record's status to an earlier position of
\* queued < chunking < routing < embedding < upserting < completed,
\* also when the same job id is scheduled again.
C2_StatusMonotonic ==
    [][\A j \in DOMAIN JOB_STORE :
          (Ordered(JOB_STORE[j].status) /\ Ordered(JOB_STORE'[j].status))
              => Rank(JOB_STORE'[j].status) >= Rank(JOB_STORE[j].status)]_vars

\* C3: once a record's status is completed or failed, no step changes it.
C3_TerminalAbsorbing ==
    [][\A j \in DOMAIN JOB_STORE :
          JOB_STORE[j].status \in Terminal
              => JOB_STORE'[j].status = JOB_STORE[j].status]_vars

\* C4: every status change is a step to the immediately next stage, or a step
\* to failed from one of the four processing stages (never from queued).
C4_AllowedTransitions ==
    [][\A j \in DOMAIN JOB_STORE :
          LET old == JOB_STORE[j].status
              new == JOB_STORE'[j].status
          IN new # old =>
                \/ /\ Ordered(old) /\ Ordered(new)
                   /\ Rank(new) = Rank(old) + 1
                \/ /\ old \in Processing
                   /\ new = "failed"]_vars

\* C5: an invocation that finds its record already completed or failed makes
\* no external call and leaves the record as it found it.
C5_ReprocessNoOp ==
    \A t \in Tasks :
        (loc[t].entry # None /\ loc[t].entry[1].status \in Terminal)
            => /\ calls[t] = NoCalls
               /\ JOB_STORE[arg[t]] = loc[t].entry[1]

\* C6: process_job for a job id without a record returns normally, creating
\* and changing no record, leaving JOB_QUEUE and the staged files alone and
\* making no external call.
C6_UnknownJobNoOp ==
    [][\A t \in Tasks :
          (pc[t] = "load" /\ pc'[t] # "load" /\ arg[t] \notin DOMAIN JOB_STORE)
              => /\ pc'[t] = "release"
                 /\ loc'[t].outcome = "returned"
                 /\ JOB_STORE' = JOB_STORE
                 /\ JOB_QUEUE' = JOB_QUEUE
                 /\ files' = files
                 /\ calls'[t] = NoCalls]_vars

\* C6 witness: a task has returned from process_job for an id that has no
\* record, while another job's record exists.
C6_Witness ==
    \E t \in Tasks :
        /\ pc[t] = "release"
        /\ arg[t] \notin DOMAIN JOB_STORE
        /\ loc[t].outcome = "returned"
        /\ DOMAIN JOB_STORE # {}

\* C7: process_job never raises to its caller; when a stage raised, it returns
\* with the record failed and error "<exception type name>: <message>".
C7_FailureRecorded ==
    [][\A t \in Tasks :
          (pc[t] \in BodyPcs /\ pc'[t] = "release")
              => /\ loc'[t].outcome = "returned"
                 /\ loc'[t].exc # None =>
                       /\ JOB_STORE'[arg[t]].status = "failed"
                       /\ JOB_STORE'[arg[t]].error =
                             Some(loc'[t].exc[1].type \o ": " \o loc'[t].exc[1].msg)]_vars

\* C7 witness: process_job has returned after the cleanup step raised, the
\* record failed with the OSError recorded.
C7_Witness ==
    \E t \in Tasks :
        /\ pc[t] = "release"
        /\ loc[t].exc = Some(CleanupOSError)
        /\ JOB_STORE[arg[t]].status = "failed"
        /\ JOB_STORE[arg[t]].error = Some("OSError: Directory not empty")

\* C8: a failed record has a non-empty error, its staged input file still
\* exists, and the invocation that failed it has not called cleanup_job_files.
C8_FailedKeepsFile ==
    \A j \in DOMAIN JOB_STORE :
        JOB_STORE[j].status = "failed"
            => /\ JOB_STORE[j].error # None
               /\ JOB_STORE[j].error[1] # ""
               /\ JOB_STORE[j].file_path # None
                     => JOB_STORE[j].file_path \in DOMAIN files
               /\ \A t \in Tasks :
                     (Holding(t) /\ arg[t] = j) => calls[t].cleanup = 0

C10_Preflight ==
    \A t \in Tasks :
        (/\ pc[t] = "release"
         /\ loc[t].entry # None
         /\ \/ loc[t].entry[1].file_path = None
            \/ Get(loc[t].entry[1].metadata, "index", "") = "")
            => /\ JOB_STORE[arg[t]].status = "failed"
               /\ JOB_STORE[arg[t]].error =
                     IF loc[t].entry[1].file_path = None
                     THEN Some("ValueError: No file path available for processing.")
                     ELSE Some("ValueError: No index name specified.")
               /\ calls[t].parse = 0
               /\ calls[t].classify = 0
               /\ calls[t].embed = 0
               /\ calls[t].upsert = 0

\* C10 witness: a job whose staged file exists but whose configuration has no
\* index name has been failed by the pre-flight check.
C10_Witness ==
    \E t \in Tasks :
        /\ pc[t] = "release"
        /\ loc[t].entry # None
        /\ loc[t].entry[1].file_path # None
        /\ loc[t].entry[1].status = "queued"
        /\ Get(loc[t].entry[1].metadata, "index", "") = ""
        /\ JOB_STORE[arg[t]].status = "failed"


\* ------------------------------------------------------- namespace router
\* The classifier of namespace_router.py followed on its own: the settings
\* and the replies of the completion endpoint are its inputs.

MaxRouterChunks == 2

\* class Namespace(str, Enum): member name -> value
NamespaceMembers ==
    [PROJECTS |-> "projects", EXPERIENCE |-> "experience", PERSONAL |-> "personal",
     EDUCATION |-> "education", ABOUT_RAG |-> "about_rag"]

\* attribute access on the enum class: Namespace.<name>
GetMember(name) ==
    IF name \in DOMAIN NamespaceMembers
    THEN [raised |-> None, value |-> Some(NamespaceMembers[name])]
    ELSE [raised |-> Some(Exc("AttributeError", name)), value |-> None]

\* the expression every fallback branch returns
FallbackNamespace == GetMember("PROFESSIONAL_LIFE")

\* characters of a reply: whole words stand for runs of letters
Whitespace == {" ", "\n"}
Punctuation == {"'", ".", ":", "("}
Words == {"projects", "Personal", "about_rag", "blog"}

\* str.lower on the words above
Lower(a) == IF a = "Personal" THEN "personal" ELSE a

RECURSIVE LStrip(_, _)
LStrip(chars, S) ==
    IF chars = <<>> \/ Head(chars) \notin S THEN chars ELSE LStrip(Tail(chars), S)

RECURSIVE RStrip(_, _)
RStrip(chars, S) ==
    IF chars = <<>> \/ chars[Len(chars)] \notin S
    THEN chars
    ELSE RStrip(SubSeq(chars, 1, Len(chars) - 1), S)

\* str.strip(S)
Strip(chars, S) == RStrip(LStrip(chars, S), S)

\* the prefix of chars before the first character of S
RECURSIVE Before(_, _)
Before(chars, S) ==
    IF chars = <<>> \/ Head(chars) \in S
    THEN <<>>
    ELSE <<Head(chars)>> \o Before(Tail(chars), S)

RECURSIVE Join(_)
Join(chars) == IF chars = <<>> THEN "" ELSE Head(chars) \o Join(Tail(chars))

\* _extract_message_content: first choice's content, stripped and lower-cased
ExtractMessageContent(payload) ==
    IF payload = <<>>
    THEN <<>>
    ELSE LET content == Strip(payload[1], Whitespace)
         IN [i \in DOMAIN content |-> Lower(content[i])]

\* first token of the first line, punctuation stripped (lines 179-181)
ParseResult(result_raw) ==
    LET first_line == Before(result_raw, {"\n"})
        first_token == Before(LStrip(first_line, Whitespace), Whitespace)
    IN Join(Strip(first_token, Punctuation))

\* namespace_map.get(result)
NamespaceMapGet(result) == IF result \in Namespace THEN Some(result) ELSE None

\* _normalize_model on the model names of RouterSettings
NormalizeModel(model) == IF model \in {"", " "} THEN "" ELSE model \o ":free"


\* replies of POST /chat/completions: an exception, or the choices' contents
Failures == {"TimeoutException", "HTTPStatusError", "HTTPError", "ValueError"}
Payloads ==
    { <<>>,
      << <<" ">> >>,
      << <<"projects">> >>,
      << <<"'", "Personal", "'", ".">> >>,
      << <<" ", "about_rag", " ", "blog", "\n", "projects">> >>,
      << <<"blog">> >>,
      << <<"projects", "blog">> >>,
      << <<".", " ", "projects">> >> }
Responses ==
    [kind : Failures, payload : {<<>>}] \cup [kind : {"ok"}, payload : Payloads]

\* get_settings(): the two settings the router reads
RouterSettings ==
    { [openrouter_model |-> "gpt", openrouter_api_key |-> "key"],
      [openrouter_model |-> " ", openrouter_api_key |-> "key"],
      [openrouter_model |-> "gpt", openrouter_api_key |-> ""] }

\* ParsedChunk as the router reads it
RouterChunks ==
    { [text |-> " ", context_summary |-> "", heading |-> ""],
      [text |-> " ", context_summary |-> "", heading |-> "Intro"],
      [text |-> "body", context_summary |-> "", heading |-> ""],
      [text |-> "body", context_summary |-> "summary", heading |-> "Intro"],
      [text |-> "body", context_summary |-> "", heading |-> "Work"] }

\* chunk.metadata.get("context_summary") or chunk.text
GetContextText(chunk) ==
    IF chunk.context_summary # "" THEN chunk.context_summary ELSE chunk.text

\* the unique non-empty headings, in document order (lines 68-72)
RECURSIVE UniqueHeadings(_, _)
UniqueHeadings(chunks, seen) ==
    IF chunks = <<>>
    THEN seen
    ELSE LET heading == Head(chunks).heading
         IN UniqueHeadings(Tail(chunks),
                IF heading # "" /\ \A i \in DOMAIN seen : seen[i] # heading
                THEN Append(seen, heading)
                ELSE seen)

\* one fallback branch: set the flag, then evaluate the return expression
FallbackResult(client, sent) ==
    [flag |-> TRUE, client |-> client, sent |-> sent, fell_back |-> TRUE,
     raised |-> FallbackNamespace.raised, value |-> FallbackNamespace.value]

\* _call_llm_for_classification: the flag, the cached client, whether a
\* request was sent, and what the call returned or raised
CallLlmForClassification(text, headings, settings, client, response) ==
    IF IsBlank(text) /\ headings = <<>>
    THEN FallbackResult(client, FALSE)
    ELSE IF NormalizeModel(settings.openrouter_model) = ""
    THEN FallbackResult(client, FALSE)
    ELSE IF ~client /\ IsBlank(settings.openrouter_api_key)
    THEN FallbackResult(FALSE, FALSE)
    ELSE IF response.kind # "ok"
    THEN FallbackResult(TRUE, TRUE)
    ELSE LET result_raw == ExtractMessageContent(response.payload)
             namespace == NamespaceMapGet(ParseResult(result_raw))
         IN IF result_raw = <<>> \/ namespace = None
            THEN FallbackResult(TRUE, TRUE)
            ELSE [flag |-> FALSE, client |-> TRUE, sent |-> TRUE, fell_back |-> FALSE,
                  raised |-> None, value |-> namespace]

\* did_last_call_use_fallback()
DidLastCallUseFallback == router.flag

\* no classification entry point has been called yet
NoRouterCall ==
    [fn |-> "none", n |-> 0, text |-> "", headings |-> <<>>, results |-> <<>>,
     raised |-> None, fell_back |-> 0, requests |-> 0, done |-> FALSE]

RouterInit ==
    /\ PipelineInit
    /\ embedder = "idle"
    /\ upserter = "idle"
    /\ built = {}
    /\ api = "idle"
    /\ snapshot = "idle"
    /\ locks = "idle"
    /\ router \in { [settings |-> st, client |-> FALSE, flag |-> FALSE,
                     call |-> NoRouterCall] : st \in RouterSettings }

RouterFrame == UNCHANGED <<pipeline_vars, embedder, upserter, built, api, snapshot, locks>>

\* classify_document(chunks)
ClassifyDocument(chunks, response) ==
    /\ router.call.fn = "none" \/ router.call.done
    /\ IF chunks = <<>>
       THEN router' = [router EXCEPT !.call =
                [fn |-> "classify_document", n |-> 0, text |-> "", headings |-> <<>>,
                 results |-> IF FallbackNamespace.raised = None
                             THEN FallbackNamespace.value ELSE <<>>,
                 raised |-> FallbackNamespace.raised,
                 fell_back |-> 1, requests |-> 0, done |-> TRUE]]
       ELSE LET first_chunk_text == GetContextText(chunks[1])
                headings == UniqueHeadings(chunks, <<>>)
                r == CallLlmForClassification(first_chunk_text, headings,
                        router.settings, router.client, response)
            IN router' = [router EXCEPT
                    !.flag = r.flag,
                    !.client = r.client,
                    !.call = [fn |-> "classify_document", n |-> Len(chunks),
                              text |-> first_chunk_text, headings |-> headings,
                              results |-> r.value, raised |-> r.raised,
                              fell_back |-> IF r.fell_back THEN 1 ELSE 0,
                              requests |-> IF r.sent THEN 1 ELSE 0,
                              done |-> TRUE]]
    /\ RouterFrame

\* classify_chunks_individually(chunks): entry, with len(chunks) = n
ClassifyChunksIndividually(n) ==
    /\ router.call.fn = "none" \/ router.call.done
    /\ router' = [router EXCEPT !.call =
            [fn |-> "classify_chunks_individually", n |-> n, text |-> "",
             headings |-> <<>>, results |-> <<>>,
             raised |-> None, fell_back |-> 0, requests |-> 0, done |-> n = 0]]
    /\ RouterFrame

\* classify_chunk(chunk) for the next chunk of the list comprehension
ClassifyChunk(chunk, response) ==
    /\ router.call.fn = "classify_chunks_individually"
    /\ ~router.call.done
    /\ LET text == GetContextText(chunk)
           headings == IF chunk.heading # "" THEN <<chunk.heading>> ELSE <<>>
           r == CallLlmForClassification(text, headings, router.settings,
                    router.client, response)
           results == router.call.results \o r.value
       IN router' = [router EXCEPT
               !.flag = r.flag,
               !.client = r.client,
               !.call.text = text,
               !.call.headings = headings,
               !.call.results = results,
               !.call.raised = r.raised,
               !.call.fell_back = @ + (IF r.fell_back THEN 1 ELSE 0),
               !.call.requests = @ + (IF r.sent THEN 1 ELSE 0),
               !.call.done = (r.raised # None \/ Len(results) = router.call.n)]
    /\ RouterFrame

RouterChunkLists ==
    UNION { [1..n -> RouterChunks] : n \in 0..MaxRouterChunks }

RouterNext ==
    \/ \E chunks \in RouterChunkLists, response \in Responses :
          ClassifyDocument(chunks, response)
    \/ \E n \in 0..MaxRouterChunks : ClassifyChunksIndividually(n)
    \/ \E chunk \in RouterChunks, response \in Responses :
          ClassifyChunk(chunk, response)

SpecRouter == RouterInit /\ [][RouterNext]_vars

\* C11: classify_document and classify_chunks_individually never raise; every
\* internal failure ends in a returned member of Namespace with the
\* fallback flag set.
C11_RouterNeverFails ==
    router.call.done =>
        /\ router.call.raised = None
        /\ \A i \in DOMAIN router.call.results : router.call.results[i] \in Namespace
        /\ router.call.fell_back > 0 => DidLastCallUseFallback


\* ------------------------------------------------- routing inside process_job

\* the routing mode process_job reads from the record (line 146)
ModeOf(t) == Get(JOB_STORE[arg[t]].metadata, "routing_mode", "auto")

\* record.routing_fallback_used, false where the record carries no such field
RoutingFallbackUsed(record) == Get(record, "routing_fallback_used", FALSE)

\* C12: when classification falls back in auto or per_chunk mode, the routing
\* step records fallback-used on the job record and goes on to embedding
\* instead of failing the job.
C12_FallbackContinues ==
    [][\A t \in Tasks :
          (pc[t] = "route" /\ calls'[t].fallbacks > calls[t].fallbacks) =>
              /\ pc'[t] = "embed"
              /\ RoutingFallbackUsed(JOB_STORE'[arg[t]])]_vars

\* C13: in per_chunk mode, an invocation in which at least one chunk's
\* classification fell back leaves the job's fallback-used flag true.
C13_PerChunkFlag ==
    \A t \in Tasks :
        (pc[t] = "release" /\ calls[t].fallbacks > 0 /\ ModeOf(t) = "per_chunk") =>
            RoutingFallbackUsed(JOB_STORE[arg[t]])

\* C14: leaving the routing step with n chunks, manual mode has made no
\* classification call and every chunk carries the stored namespace; auto
\* mode has made exactly one call and every chunk carries its result;
\* per_chunk mode has made exactly n calls and produced n namespaces.
C14_RoutingByMode ==
    [][\A t \in Tasks :
          (pc[t] = "route" /\ pc'[t] # "route") =>
              LET n == Len(loc[t].chunks)
                  made == calls'[t].classify - calls[t].classify
                  ns == loc'[t].chunk_namespaces
                  stored == Get(JOB_STORE[arg[t]].metadata, "namespace", "")
              IN CASE ModeOf(t) = "manual" ->
                        made = 0 /\ ns = [i \in 1..n |-> stored]
                   [] ModeOf(t) = "per_chunk" ->
                        made = n /\ Len(ns) = n
                   [] OTHER ->
                        /\ made = 1
                        /\ Len(ns) = n
                        /\ \A i, j \in 1..n : ns[i] = ns[j]]_vars


\* ---------------------------------------------------------------- embedder
\* embed_texts_batched followed on its own, one attempt of embed_texts per
\* step; the texts and the replies of the embeddings endpoint are its inputs.

MaxEmbedBatches == 2

EMBEDDING_BATCH_SIZE == 20

\* stop_after_attempt(10) of embed_texts
EMBED_STOP_AFTER_ATTEMPT == 10

\* the i-th text of an input list; " " is a blank text
Text(k) == "text" \o ToString(k)

\* the vector the embedding model assigns to a text
Embedding(text) == <<"embedding", text>>

\* list lengths around the batch boundaries
EmbedSizes ==
    { b * EMBEDDING_BATCH_SIZE + r :
        b \in 0..(MaxEmbedBatches - 1), r \in {0, 1, EMBEDDING_BATCH_SIZE - 1} }

\* input lists: all texts non-blank, or one blank text first or last
EmbedInputs ==
    { [k \in 1..n |-> IF k = blank THEN " " ELSE Text(k)] :
        n \in EmbedSizes, blank \in {0, 1, EMBEDDING_BATCH_SIZE + 1} }

\* replies of client.embeddings.create
EmbedReplies == {"ok", "extra", "RateLimitError", "APIError"}

\* num_batches (line 85)
NumBatches(texts) == (Len(texts) + EMBEDDING_BATCH_SIZE - 1) \div EMBEDDING_BATCH_SIZE

\* batch_num of the batch starting at offset i (line 93)
BatchNum(i) == i \div EMBEDDING_BATCH_SIZE + 1

Min(a, b) == IF a < b THEN a ELSE b

\* a batch that takes one text too many
Batch_Overlapping(texts, i) ==
    SubSeq(texts, i + 1, Min(i + EMBEDDING_BATCH_SIZE + 1, Len(texts)))

\* texts[i : i + EMBEDDING_BATCH_SIZE]
Batch(texts, i) ==
    SubSeq(texts, i + 1, Min(i + EMBEDDING_BATCH_SIZE, Len(texts)))

\* a retry predicate that retries every exception
EmbedRetries_AnyException(type) == TRUE

\* retry_if_exception_type(RateLimitError)
EmbedRetries(type) == type = "RateLimitError"

\* a check that lets every batch through
InvalidTexts_Never(batch) == FALSE

\* any(not isinstance(text, str) or not text.strip() for text in texts)
InvalidTexts(batch) == \E k \in 1..Len(batch) : IsBlank(batch[k])

\* str(e) of the exceptions embed_texts raises
EmbedErrorText(type) ==
    IF type = "ValueError"
    THEN "All texts must be non-empty strings for embedding."
    ELSE IF type = "RateLimitError" THEN "Rate limit exceeded"
    ELSE "Internal server error"

\* a loop that sleeps after every batch
DelayAfterBatch_EveryBatch(batch_num, num_batches) == TRUE

\* if batch_num < num_batches: time.sleep(INTER_BATCH_DELAY)
DelayAfterBatch(batch_num, num_batches) == batch_num < num_batches

EmbedInit ==
    /\ PipelineInit
    /\ router = "idle"
    /\ upserter = "idle"
    /\ built = {}
    /\ api = "idle"
    /\ snapshot = "idle"
    /\ locks = "idle"
    /\ embedder \in
         { [texts |-> texts, status |-> "called", i |-> 0, all_embeddings |-> <<>>,
            attempt |-> 1, issued |-> [b \in 1..NumBatches(texts) |-> 0],
            sleeps |-> 0, faithful |-> TRUE, last_error |-> None, exc |-> None,
            job |-> [status |-> "embedding", error |-> None, upserts |-> 0]] :
           texts \in EmbedInputs }

EmbedFrame == UNCHANGED <<pipeline_vars, router, upserter, built, api, snapshot, locks>>

\* embed_texts_batched: entry (lines 81-85)
EmbedTextsBatched ==
    /\ embedder.status = "called"
    /\ embedder' = [embedder EXCEPT
           !.status = IF embedder.texts = <<>> THEN "returned" ELSE "running"]
    /\ EmbedFrame

\* one attempt of embed_texts on the current batch, and what the retry
\* decorator and the batch loop do with its outcome
EmbedTexts(reply) ==
    /\ embedder.status = "running"
    /\ LET texts == embedder.texts
           i == embedder.i
           batch == Batch(texts, i)
           b == BatchNum(i)
           raise(type) ==
               IF EmbedRetries(type) /\ embedder.attempt < EMBED_STOP_AFTER_ATTEMPT
               THEN [embedder EXCEPT !.attempt = @ + 1, !.last_error = Some(type)]
               ELSE [embedder EXCEPT !.status = "raised", !.last_error = Some(type),
                                     !.exc = Some(type)]
           return(batch_embeddings) ==
               [embedder EXCEPT
                   !.all_embeddings = @ \o batch_embeddings,
                   !.sleeps = IF DelayAfterBatch(b, NumBatches(texts)) THEN @ + 1 ELSE @,
                   !.i = i + EMBEDDING_BATCH_SIZE,
                   !.attempt = 1,
                   !.last_error = None,
                   !.status = IF i + EMBEDDING_BATCH_SIZE < Len(texts)
                              THEN "running" ELSE "returned"]
           vectors == [k \in 1..Len(batch) |-> Embedding(batch[k])]
       IN IF InvalidTexts(batch)
          THEN /\ reply = "ok"
               /\ embedder' = raise("ValueError")
          ELSE LET sent == [embedder EXCEPT !.issued[b] = @ + 1]
               IN CASE reply = "ok" ->
                         embedder' = [return(vectors) EXCEPT !.issued = sent.issued]
                    [] reply = "extra" ->
                         embedder' = [return(Append(vectors, vectors[1])) EXCEPT
                                         !.issued = sent.issued, !.faithful = FALSE]
                    [] OTHER ->
                         embedder' = [raise(reply) EXCEPT !.issued = sent.issued]
    /\ EmbedFrame

\* process_job around the call (ingest_queue.py lines 200-248): an exception
\* of embed_texts_batched is re-raised and recorded by the handler; a
\* result of the wrong length fails the job; otherwise the vectors are
\* upserted, here to one namespace
EmbedCaller ==
    /\ embedder.status \in {"raised", "returned"}
    /\ embedder.job.status = "embedding"
    /\ embedder' =
          [embedder EXCEPT !.job =
              IF embedder.status = "raised"
              THEN [status |-> "failed",
                    error |-> Some(ErrorMsg(Exc(embedder.exc[1],
                                                EmbedErrorText(embedder.exc[1])))),
                    upserts |-> 0]
              ELSE IF CountMismatch(Len(embedder.all_embeddings), Len(embedder.texts))
              THEN [status |-> "failed",
                    error |-> Some(ErrorMsg(CountMismatchError(
                                 Len(embedder.texts), Len(embedder.all_embeddings)))),
                    upserts |-> 0]
              ELSE [status |-> "completed", error |-> None,
                    upserts |-> IF embedder.texts = <<>> THEN 0 ELSE 1]]
    /\ EmbedFrame

EmbedNext ==
    \/ EmbedTextsBatched
    \/ \E reply \in EmbedReplies : EmbedTexts(reply)
    \/ EmbedCaller

SpecEmbed == EmbedInit /\ [][EmbedNext]_vars

\* C15: when every external call returned one vector per input in order,
\* embed_texts_batched on N texts returns exactly N vectors, the i-th being
\* the embedding of the i-th text.
C15_BatchedOrder ==
    (embedder.status = "returned" /\ embedder.faithful) =>
        embedder.all_embeddings =
            [k \in 1..Len(embedder.texts) |-> Embedding(embedder.texts[k])]

\* a list of more than one batch was embedded, one batch after a retry
C15_Witness ==
    /\ embedder.status = "returned"
    /\ embedder.faithful
    /\ Len(embedder.texts) > EMBEDDING_BATCH_SIZE
    /\ embedder.issued[1] > 1

\* C16: a rate-limited batch alone is re-issued, at most 10 times in all;
\* after the 10th rate-limited attempt the error propagates; any other
\* error propagates at once.
C16_EmbedRetry ==
    [][LET b == BatchNum(embedder.i)
       IN /\ \A k \in DOMAIN embedder.issued :
                 /\ k # b => embedder'.issued[k] = embedder.issued[k]
                 /\ embedder'.issued[k] <= EMBED_STOP_AFTER_ATTEMPT
          /\ SubSeq(embedder'.all_embeddings, 1, Len(embedder.all_embeddings))
                 = embedder.all_embeddings
          /\ (embedder'.status = "raised" /\ embedder'.exc = Some("RateLimitError")) =>
                 embedder'.issued[b] = EMBED_STOP_AFTER_ATTEMPT
          /\ embedder'.last_error \notin {None, Some("RateLimitError")} =>
                 embedder'.status = "raised"]_vars

\* the second batch was rate-limited ten times and the error propagated
C16_Witness ==
    /\ embedder.status = "raised"
    /\ embedder.exc = Some("RateLimitError")
    /\ embedder.issued = <<1, EMBED_STOP_AFTER_ATTEMPT>>
    /\ Len(embedder.all_embeddings) = EMBEDDING_BATCH_SIZE


\* ------------------------------------------------------------ vector upsert
\* upsert_vectors followed on its own, one index.upsert call per step; the
\* number of vectors and the store's replies are its inputs.

MaxUpsertBatches == 2

UPSERT_BATCH_SIZE == 100

\* stop_after_attempt(5) of upsert_vectors
UPSERT_STOP_AFTER_ATTEMPT == 5

\* list lengths around the batch boundaries
UpsertSizes ==
    { b * UPSERT_BATCH_SIZE + r :
        b \in 0..(MaxUpsertBatches - 1), r \in {0, 1, UPSERT_BATCH_SIZE - 1} }

\* replies of index.upsert: success, or the exception raised and its cause.
\* A rejected payload reaches the caller as a PineconeException when the
\* store refuses it and as a ValueError when the client library refuses it.
UpsertReplies ==
    { [cause |-> "ok", type |-> "none"],
      [cause |-> "unavailable", type |-> "PineconeException"],
      [cause |-> "unavailable", type |-> "ConnectionError"],
      [cause |-> "rejected", type |-> "PineconeException"],
      [cause |-> "rejected", type |-> "ValueError"] }

\* a retry predicate that retries every exception
UpsertRetries_AnyException(type) == TRUE

\* retry_if_exception_type((PineconeException, ConnectionError))
UpsertRetries(type) == type \in {"PineconeException", "ConnectionError"}

\* a retry that resumes at the failing batch
RestartOffset_Resume(i) == i

\* the decorator calls the whole function again: range(0, ...) starts over
RestartOffset(i) == 0

\* number of batches of n vectors
UpsertBatches(n) == (n + UPSERT_BATCH_SIZE - 1) \div UPSERT_BATCH_SIZE

UpsertInit ==
    /\ PipelineInit
    /\ router = "idle"
    /\ embedder = "idle"
    /\ built = {}
    /\ api = "idle"
    /\ snapshot = "idle"
    /\ locks = "idle"
    /\ upserter \in
         { [n |-> n, status |-> "called", attempt |-> 1, i |-> 0, total_upserted |-> 0,
            issued |-> [b \in 1..UpsertBatches(n) |-> 0],
            written |-> [b \in 1..UpsertBatches(n) |-> 0],
            failures |-> 0, last_error |-> None, exc |-> None, result |-> None] :
           n \in UpsertSizes }

UpsertFrame == UNCHANGED <<pipeline_vars, router, embedder, built, api, snapshot, locks>>

\* upsert_vectors: entry (lines 48-59)
UpsertVectors ==
    /\ upserter.status = "called"
    /\ upserter' = IF upserter.n = 0
                   THEN [upserter EXCEPT !.status = "returned", !.result = Some(0)]
                   ELSE [upserter EXCEPT !.status = "running"]
    /\ UpsertFrame

\* one index.upsert call for the batch at offset i, and what the batch loop
\* and the retry decorator do with its outcome
IndexUpsert(reply) ==
    /\ upserter.status = "running"
    /\ LET i == upserter.i
           b == i \div UPSERT_BATCH_SIZE + 1
           len_batch == Min(UPSERT_BATCH_SIZE, upserter.n - i)
           total == upserter.total_upserted + len_batch
           sent == [upserter EXCEPT !.issued[b] = @ + 1]
       IN IF reply.cause = "ok"
          THEN upserter' =
                  IF i + UPSERT_BATCH_SIZE < upserter.n
                  THEN [sent EXCEPT !.written[b] = @ + 1, !.total_upserted = total,
                                    !.i = i + UPSERT_BATCH_SIZE]
                  ELSE [sent EXCEPT !.written[b] = @ + 1, !.total_upserted = total,
                                    !.i = i + UPSERT_BATCH_SIZE,
                                    !.status = "returned", !.result = Some(total)]
          ELSE upserter' =
                  IF UpsertRetries(reply.type)
                     /\ upserter.attempt < UPSERT_STOP_AFTER_ATTEMPT
                  THEN [sent EXCEPT !.failures = @ + 1, !.last_error = Some(reply),
                                    !.attempt = @ + 1, !.i = RestartOffset(i),
                                    !.total_upserted = 0]
                  ELSE [sent EXCEPT !.failures = @ + 1, !.last_error = Some(reply),
                                    !.status = "raised", !.exc = Some(reply)]
    /\ UpsertFrame

UpsertNext ==
    \/ UpsertVectors
    \/ \E reply \in UpsertReplies : IndexUpsert(reply)

SpecUpsert == UpsertInit /\ [][UpsertNext]_vars

\* C17: every attempt of upsert_vectors starts again at the first batch, at
\* most 5 attempts are made, and a retryable error propagates only after the
\* 5th attempt has failed.
C17_UpsertRestart ==
    /\ upserter.attempt <= UPSERT_STOP_AFTER_ATTEMPT
    /\ upserter.status = "running" =>
           upserter.issued[1] = IF upserter.i = 0 THEN upserter.attempt - 1
                                                  ELSE upserter.attempt
    /\ (upserter.status = "raised" /\ UpsertRetries(upserter.exc[1].type)) =>
           /\ upserter.attempt = UPSERT_STOP_AFTER_ATTEMPT
           /\ upserter.issued[1] = UPSERT_STOP_AFTER_ATTEMPT

\* the second batch failed once, and the retry wrote the first batch again
C17_Witness ==
    /\ upserter.status = "returned"
    /\ upserter.attempt = 2
    /\ upserter.written = <<2, 1>>

\* C18 as stated: a batch write that fails with a rejection ends the call,
\* with no further write attempt.
C18_RejectionNotRetried ==
    [][(upserter'.failures > upserter.failures
            /\ upserter'.last_error[1].cause = "rejected") =>
          upserter'.status = "raised"]_vars

\* C18 amended: a write failure is retried exactly when it is a
\* PineconeException or a ConnectionError, whatever its cause. A failure of
\* another type (a ValueError for a malformed vector) ends the call after
\* that single attempt; a rejection raised as a PineconeException is retried
\* like a transient failure while attempts remain.
C18_RetryByType ==
    [][upserter'.failures > upserter.failures =>
          LET e == upserter'.last_error[1]
          IN IF e.type \in {"PineconeException", "ConnectionError"}
             THEN upserter.attempt < UPSERT_STOP_AFTER_ATTEMPT =>
                      /\ upserter'.status = "running"
                      /\ upserter'.attempt = upserter.attempt + 1
             ELSE /\ upserter'.status = "raised"
                  /\ upserter'.exc = Some(e)
                  /\ upserter'.attempt = upserter.attempt]_vars

\* a ValueError rejection surfaced after the single write that met it
C18_Witness ==
    /\ upserter.status = "raised"
    /\ upserter.exc = Some([cause |-> "rejected", type |-> "ValueError"])
    /\ upserter.attempt = 1
    /\ upserter.issued = <<1, 1>>


\* ---------------------------------------------------------- vector records
\* The vector dict process_job assembles for one (chunk, embedding,
\* namespace) triple, followed on its own over chunks of several jobs.

MaxBuilt == 2

\* a dict without keys
EmptyDict == <<>>

\* hashlib.md5(s.encode()).hexdigest(): a digest determined by the string
Md5(s) == <<"md5", s>>

\* ParsedChunk values: two texts, each with bare and with full metadata
VectorChunks ==
    [text : {"alpha", "beta"},
     metadata : {EmptyDict,
                 [context_summary |-> "about alpha", document_title |-> "Doc",
                  heading |-> "Intro", page_number |-> 2, chunk_index |-> 3]}]

VectorEmbeddings == {Embedding("alpha"), Embedding("about alpha")}

\* an id that hashes the contextualized text
VectorId_FromContext(chunk) == Md5(Get(chunk.metadata, "context_summary", chunk.text))

\* "id": hashlib.md5(chunk.text.encode()).hexdigest()
VectorId(chunk) == Md5(chunk.text)

\* the vector dict of lines 219-233
BuildVector(chunk, embedding, user_meta, content_type) ==
    [id |-> VectorId(chunk),
     values |-> embedding,
     metadata |->
        [text |-> chunk.text,
         contextualized_text |-> Get(chunk.metadata, "context_summary", ""),
         doc_title |-> Get(chunk.metadata, "document_title", ""),
         heading |-> Get(chunk.metadata, "heading", ""),
         source_url |-> Get(user_meta, "source_url", ""),
         page_number |-> Get(chunk.metadata, "page_number", 1),
         content_type |-> content_type,
         chunk_index |-> Get(chunk.metadata, "chunk_index", 1)]]

VectorInit ==
    /\ PipelineInit
    /\ router = "idle"
    /\ embedder = "idle"
    /\ upserter = "idle"
    /\ built = {}
    /\ api = "idle"
    /\ snapshot = "idle"
    /\ locks = "idle"

\* one iteration of the assembly loop of some job
AssembleVector(job_id, chunk, embedding, namespace) ==
    /\ Cardinality(built) < MaxBuilt
    /\ built' = built \cup
         { [job_id |-> job_id, chunk |-> chunk, namespace |-> namespace,
            vector |-> BuildVector(chunk, embedding,
                                   [source_url |-> "https://example.org/" \o ToString(job_id)],
                                   "text")] }
    /\ UNCHANGED <<pipeline_vars, router, embedder, upserter, api, snapshot, locks>>

VectorNext ==
    \E job_id \in JobIds, chunk \in VectorChunks, embedding \in VectorEmbeddings,
       namespace \in ClassifierAnswers :
        AssembleVector(job_id, chunk, embedding, namespace)

SpecVectors == VectorInit /\ [][VectorNext]_vars

\* C19: the id of a vector record is the hash of its chunk's raw text alone:
\* records built from the same text carry the same id whatever their job,
\* namespace, embedding or metadata, and every record is keyed by the hash
\* of its own text.
C19_IdFromText ==
    \A x, y \in built :
        /\ x.vector.id = Md5(x.chunk.text)
        /\ (x.chunk.text = y.chunk.text) => (x.vector.id = y.vector.id)

\* the same text assembled in two jobs with different context, embedding
\* and namespace
C19_Witness ==
    \E x, y \in built :
        /\ x.chunk.text = y.chunk.text
        /\ x.job_id # y.job_id
        /\ x.namespace # y.namespace
        /\ x.vector.values # y.vector.values
        /\ x.vector.metadata.contextualized_text # y.vector.metadata.contextualized_text


\* -------------------------------------------------- embedding count check

\* the invocation of task t got a number of vectors other than its chunks
Mismatched(t) ==
    /\ loc[t].embeddings # None
    /\ loc[t].embeddings[1] # Len(loc[t].chunks)

\* C20: an invocation whose embedding call returned a number of vectors other
\* than the number of chunks makes no upsert call, never sets the status to
\* upserting or completed, and returns with the job failed and an error that
\* names the mismatch.
C20_MismatchFatal ==
    \A t \in Tasks :
        Mismatched(t) =>
            /\ pc[t] \in {"handler", "release"}
            /\ calls[t].upsert = 0
            /\ JOB_STORE[arg[t]].status \notin {"upserting", "completed"}
            /\ pc[t] = "release" =>
                   /\ JOB_STORE[arg[t]].status = "failed"
                   /\ JOB_STORE[arg[t]].error =
                          Some("ValueError: Embedding count mismatch: expected "
                               \o ToString(Len(loc[t].chunks)) \o " vectors, got "
                               \o ToString(loc[t].embeddings[1]) \o ".")

\* two chunks, three vectors: the invocation has returned
C20_Witness ==
    \E t \in Tasks :
        /\ Mismatched(t)
        /\ Len(loc[t].chunks) = 2
        /\ pc[t] = "release"


\* ------------------------------------------------------------------ intake
\* validate_ingest_request, parse_metadata_json, add_file_to_queue and the
\* two endpoints of api/ingest.py, followed on their own.  Strings that the
\* code splits or strips are sequences of characters in which a run of
\* letters stands as one element.

MaxUploads == 2

\* str(chars)
Str(chars) == Join(chars)

\* str.lower on the file extensions used here
LowerCase(a) == IF a = "PDF" THEN "pdf" ELSE a

\* str.strip() of an optional string is empty: "not s or not s.strip()"
BlankOrNone(opt) == opt = None \/ Strip(opt[1], Whitespace) = <<>>

ALLOWED_EXTENSIONS == {".pdf", ".csv", ".json", ".docx", ".txt", ".md"}

\* "." in filename
HasDot(chars) == \E i \in DOMAIN chars : chars[i] = "."

\* filename.rsplit(".", 1)[-1]
AfterLastDot(chars) ==
    LET last == CHOOSE i \in DOMAIN chars :
                    chars[i] = "." /\ \A j \in DOMAIN chars : j > i => chars[j] # "."
    IN SubSeq(chars, last + 1, Len(chars))

\* ext = filename.rsplit(".", 1)[-1].lower() if "." in filename else ""
IntakeExt(chars) ==
    IF HasDot(chars)
    THEN LET tail == AfterLastDot(chars)
         IN Str([i \in DOMAIN tail |-> LowerCase(tail[i])])
    ELSE ""

\* is_valid_namespace
IsValidNamespace(value) == value \in Namespace

\* a mode check that lets a namespace through in every mode
NamespaceError_NotExclusive(normalized_namespace, routing_mode) ==
    IF routing_mode = "manual" /\ normalized_namespace = <<>>
    THEN Some(Exc("ValueError", "Namespace is required when routing_mode is 'manual'."))
    ELSE IF routing_mode = "manual" /\ ~IsValidNamespace(Str(normalized_namespace))
    THEN Some(Exc("ValueError", "Invalid namespace '" \o Str(normalized_namespace) \o "'."))
    ELSE None

\* lines 49-56: the namespace is required and checked in manual mode and
\* refused in the other modes
NamespaceError(normalized_namespace, routing_mode) ==
    IF routing_mode = "manual" /\ normalized_namespace = <<>>
    THEN Some(Exc("ValueError", "Namespace is required when routing_mode is 'manual'."))
    ELSE IF routing_mode = "manual" /\ ~IsValidNamespace(Str(normalized_namespace))
    THEN Some(Exc("ValueError", "Invalid namespace '" \o Str(normalized_namespace) \o "'."))
    ELSE IF routing_mode # "manual" /\ normalized_namespace # <<>>
    THEN Some(Exc("ValueError", "Namespace is only allowed when routing_mode is 'manual'."))
    ELSE None

\* validate_ingest_request: None, or the ValueError it raises.  filename and
\* namespace are optional strings, index is a string.
ValidateIngestRequest(filename, namespace, index, routing_mode) ==
    IF BlankOrNone(filename)
    THEN Some(Exc("ValueError", "Filename is required."))
    ELSE LET ext == IntakeExt(filename[1])
             normalized_namespace ==
                 IF namespace = None \/ namespace[1] = <<>>
                 THEN <<>> ELSE Strip(namespace[1], Whitespace)
             namespace_error == NamespaceError(normalized_namespace, routing_mode)
         IN IF ("." \o ext) \notin ALLOWED_EXTENSIONS
            THEN Some(Exc("ValueError", "Unsupported file type '." \o ext \o "'."))
            ELSE IF namespace_error # None
            THEN namespace_error
            ELSE IF Strip(index, Whitespace) = <<>>
            THEN Some(Exc("ValueError", "Index is required."))
            ELSE None

\* file names, namespaces and indexes the intake is driven with
Filenames ==
    { <<>>, <<" ">>, <<"report">>, <<"report", ".", "pdf">>, <<"report", ".", "PDF">>,
      <<"notes", ".", "md">>, <<"setup", ".", "exe">>, <<"data", ".", "pdf", ".", "exe">>,
      <<"v1", ".", "exe", ".", "txt">>, <<".", "pdf">>, <<"table", ".", "csv">>,
      <<"cv", ".", "docx">>, <<"data", ".", "json">> }
NamespaceTexts ==
    { <<>>, <<" ">>, <<"projects">>, <<" ", "about_rag", " ">>, <<"blog">>, <<"Personal">> }
IndexTexts == { <<>>, <<" ">>, <<"portfolio">> }

\* json.loads on the metadata_json texts used here: the decoded value with
\* its Python type, or a JSONDecodeError
JsonLoads(text) ==
    CASE text = "{\"source\": \"unit-test\"}" ->
            [raised |-> None, type |-> "dict", value |-> [source |-> "unit-test"]]
      [] text = "{}" -> [raised |-> None, type |-> "dict", value |-> EmptyDict]
      [] text = "[\"not-an-object\"]" ->
            [raised |-> None, type |-> "list", value |-> <<"not-an-object">>]
      [] text = "42" -> [raised |-> None, type |-> "int", value |-> 42]
      [] OTHER -> [raised |-> Some(Exc("JSONDecodeError", "Expecting value")),
                   type |-> "none", value |-> None]

MetadataTexts ==
    { "", " ", "{\"source\": \"unit-test\"}", "{}", "[\"not-an-object\"]", "42",
      "{bad json}" }

\* a parser that lets every decoded JSON value through
NotAnObject_AnyValue(type) == FALSE

\* not isinstance(parsed, dict)
NotAnObject(type) == type # "dict"

\* parse_metadata_json: the returned optional dict, or the ValueError raised
ParseMetadataJson(metadata_json) ==
    IF metadata_json = None \/ IsBlank(metadata_json[1])
    THEN [raised |-> None, value |-> None]
    ELSE LET parsed == JsonLoads(metadata_json[1])
         IN IF parsed.raised # None
            THEN [raised |-> Some(Exc("ValueError", "metadata_json must be valid JSON.")),
                  value |-> None]
            ELSE IF NotAnObject(parsed.type)
            THEN [raised |-> Some(Exc("ValueError", "metadata_json must be a JSON object.")),
                  value |-> None]
            ELSE [raised |-> None, value |-> Some(parsed.value)]


\* ---------------------------------------------------------------- parser
\* os.path.splitext(path)[1].lower() of a path whose last component is
\* filename: the text from the last dot on, leading dots not counted
SplitExt(filename) ==
    LET leading == Len(filename) - Len(LStrip(filename, {"."}))
        rest == SubSeq(filename, leading + 1, Len(filename))
    IN IF HasDot(rest)
       THEN LET tail == AfterLastDot(rest)
            IN "." \o Str([i \in DOMAIN tail |-> LowerCase(tail[i])])
       ELSE ""

\* _read_text_payload: the text of a .txt, .json or .csv file, a ValueError
\* for any other extension
ReadTextPayload(ext, text) ==
    IF ext \in {".txt", ".json", ".csv"}
    THEN [raised |-> None, text |-> text]
    ELSE [raised |-> Some(Exc("ValueError", "Unsupported text file type '" \o ext \o "'.")),
          text |-> ""]

\* _parse_text_with_docling: None when Docling is reached, or the ValueError
ParseTextWithDocling(ext, text) ==
    LET payload == ReadTextPayload(ext, text)
    IN IF payload.raised # None
       THEN payload.raised
       ELSE IF IsBlank(payload.text)
       THEN Some(EmptyFileError)
       ELSE None

\* parse_file on a file with the given name: the ValueError raised before
\* Docling chunks the document, or None
ParseFileError(filename, exists, text) ==
    LET ext == SplitExt(filename)
    IN IF ~exists
       THEN Some(FileMissingError)
       ELSE IF ext \notin ALLOWED_EXTENSIONS
       THEN Some(Exc("ValueError", "Unsupported file type '" \o ext \o "'."))
       ELSE IF ext \in {".pdf", ".docx"}
       THEN None
       ELSE ParseTextWithDocling(ext, text)

ParseFileArgs ==
    [filename : Filenames \ {<<>>}, exists : BOOLEAN,
     text : {"", "Test content for processing."}]

\* an optional argument: None or a value
Optional(S) == {None} \cup {Some(x) : x \in S}

\* IngestJobRecord with every field of the model class, as the intake
\* constructs it: error and chunks_processed take their default None
FullJobRecord(job_id, filename, content_type, file_path, metadata) ==
    [job_id |-> job_id,
     filename |-> filename,
     content_type |-> content_type,
     status |-> "queued",
     metadata |-> metadata,
     file_path |-> file_path,
     error |-> None,
     chunks_processed |-> None]

\* bool(namespace) of an optional string: None and "" are falsy
TruthyStr(opt) == opt # None /\ opt[1] # ""

\* bool(metadata) of an optional dict: None and {} are falsy
TruthyDict(opt) == opt # None /\ DOMAIN opt[1] # {}

\* a metadata map that never carries the namespace
QueuedMetadata_NoNamespace(namespace, index, routing_mode, metadata) ==
    LET keys == {"index", "routing_mode"}
                    \cup (IF TruthyDict(metadata) THEN {"metadata"} ELSE {})
    IN [k \in keys |->
            CASE k = "index" -> index
              [] k = "routing_mode" -> routing_mode
              [] k = "metadata" -> metadata[1]]

\* record_metadata of add_file_to_queue (lines 95-99), with the custom metadata
QueuedMetadata(namespace, index, routing_mode, metadata) ==
    LET keys == {"index", "routing_mode"}
                    \cup (IF TruthyStr(namespace) THEN {"namespace"} ELSE {})
                    \cup (IF TruthyDict(metadata) THEN {"metadata"} ELSE {})
    IN [k \in keys |->
            CASE k = "index" -> index
              [] k = "routing_mode" -> routing_mode
              [] k = "namespace" -> namespace[1]
              [] k = "metadata" -> metadata[1]]

\* JOB_STORE[job_id] = record
Stored(store, job_id, record) ==
    [j \in DOMAIN store \cup {job_id} |-> IF j = job_id THEN record ELSE store[j]]

\* the record add_file_to_queue constructs from its keyword arguments
QueuedRecord(a) ==
    FullJobRecord(a.job_id, a.filename, a.content_type, a.file_path,
                  QueuedMetadata(a.namespace, a.index, a.routing_mode, a.metadata))

CustomMetadata == {EmptyDict, [source |-> "unit-test"]}

AddArgs ==
    [job_id : {1}, filename : {"file.pdf"},
     content_type : Optional({"application/pdf"}),
     file_path : {"/tmp/test/file.pdf"},
     namespace : Optional({"", "namespace"}),
     index : {"index", ""},
     routing_mode : RoutingMode,
     metadata : Optional(CustomMetadata)]

\* a call of one of the intake functions, waiting to be made
Call(fn, args) == [op |-> "call", fn |-> fn, args |-> args]

ValidateArgs ==
    [filename : Optional(Filenames), namespace : Optional(NamespaceTexts),
     index : IndexTexts, routing_mode : RoutingMode]
ParseArgs == [metadata_json : Optional(MetadataTexts)]

\* the intake functions called on their own, as the unit tests call them
ValidationInit ==
    /\ PipelineInit
    /\ router = "idle"
    /\ embedder = "idle"
    /\ upserter = "idle"
    /\ built = {}
    /\ api \in {Call("validate_ingest_request", a) : a \in ValidateArgs}
               \cup {Call("parse_metadata_json", a) : a \in ParseArgs}
               \cup {Call("add_file_to_queue", a) : a \in AddArgs}
               \cup {Call("parse_file", a) : a \in ParseFileArgs}
    /\ snapshot = "idle"
    /\ locks = "idle"

ValidationFrame == UNCHANGED <<pipeline_vars, router, embedder, upserter, built, snapshot, locks>>

ValidateIngestRequestCall ==
    /\ api.op = "call"
    /\ api.fn = "validate_ingest_request"
    /\ api' = [op |-> "return", fn |-> api.fn, args |-> api.args,
               raised |-> ValidateIngestRequest(api.args.filename, api.args.namespace,
                                                api.args.index, api.args.routing_mode),
               value |-> None]
    /\ ValidationFrame

ParseMetadataJsonCall ==
    /\ api.op = "call"
    /\ api.fn = "parse_metadata_json"
    /\ api' = [op |-> "return", fn |-> api.fn, args |-> api.args,
               raised |-> ParseMetadataJson(api.args.metadata_json).raised,
               value |-> ParseMetadataJson(api.args.metadata_json).value]
    /\ ValidationFrame

\* add_file_to_queue: the record is stored and its id appended in one step,
\* both under JOB_STORE_LOCK
AddFileToQueueCall ==
    /\ api.op = "call"
    /\ api.fn = "add_file_to_queue"
    /\ JOB_STORE' = Stored(JOB_STORE, api.args.job_id, QueuedRecord(api.args))
    /\ JOB_QUEUE' = Append(JOB_QUEUE, api.args.job_id)
    /\ api' = [op |-> "return", fn |-> api.fn, args |-> api.args,
               raised |-> None, value |-> Some(api.args.job_id)]
    /\ UNCHANGED <<PROCESSING_SEMAPHORE, files, pc, arg, loc, calls,
                   router, embedder, upserter, built, snapshot, locks>>

ParseFileCall ==
    /\ api.op = "call"
    /\ api.fn = "parse_file"
    /\ api' = [op |-> "return", fn |-> api.fn, args |-> api.args,
               raised |-> ParseFileError(api.args.filename, api.args.exists, api.args.text),
               value |-> None]
    /\ ValidationFrame

ValidationNext ==
    \/ ValidateIngestRequestCall
    \/ ParseMetadataJsonCall
    \/ AddFileToQueueCall
    \/ ParseFileCall

SpecValidation == ValidationInit /\ [][ValidationNext]_vars

\* the combinations the request may be accepted with: a filename that is not
\* empty and carries an allowed extension, an index that is not blank, and a
\* namespace of the enumeration in manual mode, none in the other modes
Returned(fn) == api.op = "return" /\ api.fn = fn

AcceptableNamespace(namespace, routing_mode) ==
    IF routing_mode = "manual"
    THEN /\ ~BlankOrNone(namespace)
         /\ Str(Strip(namespace[1], Whitespace)) \in Namespace
    ELSE BlankOrNone(namespace)

Acceptable(a) ==
    /\ a.filename # None
    /\ a.filename[1] # <<>>
    /\ ("." \o IntakeExt(a.filename[1])) \in ALLOWED_EXTENSIONS
    /\ Strip(a.index, Whitespace) # <<>>
    /\ AcceptableNamespace(a.namespace, a.routing_mode)

\* C21: validate_ingest_request rejects manual mode with an empty, blank or
\* unknown namespace, the other modes with a non-blank namespace, an empty
\* filename, an extension that is not allowed and a blank index, and accepts
\* every other combination.
C21_ModeExclusiveNamespace ==
    Returned("validate_ingest_request") =>
        /\ (api.raised = None) <=> Acceptable(api.args)
        /\ api.raised # None => api.raised[1].type = "ValueError"
        /\ (api.args.routing_mode # "manual" /\ ~BlankOrNone(api.args.namespace))
               => api.raised # None

\* auto mode with a namespace is refused although file and index are fine
C21_Witness ==
    /\ Returned("validate_ingest_request")
    /\ api.args.routing_mode = "auto"
    /\ api.args.namespace = Some(<<"projects">>)
    /\ api.args.filename = Some(<<"report", ".", "pdf">>)
    /\ api.args.index = <<"portfolio">>
    /\ api.raised =
           Some(Exc("ValueError", "Namespace is only allowed when routing_mode is 'manual'."))


\* C23: parse_metadata_json returns no metadata for a null, empty or blank
\* metadata_json and rejects invalid JSON and JSON that is not an object;
\* add_file_to_queue called with no metadata stores a metadata map without a
\* "metadata" key that still holds the index and routing_mode keys.
C23_AbsentMetadataOmitted ==
    /\ Returned("parse_metadata_json") =>
           LET text == api.args.metadata_json
           IN /\ text \in {None, Some(""), Some(" ")}
                    => api.raised = None /\ api.value = None
              /\ text = Some("{bad json}")
                    => api.raised = Some(Exc("ValueError", "metadata_json must be valid JSON."))
              /\ text \in {Some("[\"not-an-object\"]"), Some("42")}
                    => api.raised = Some(Exc("ValueError", "metadata_json must be a JSON object."))
              /\ text = Some("{\"source\": \"unit-test\"}")
                    => api.raised = None /\ api.value = Some([source |-> "unit-test"])
    /\ (Returned("add_file_to_queue") /\ api.args.metadata = None) =>
           LET metadata == JOB_STORE[api.args.job_id].metadata
           IN /\ "metadata" \notin DOMAIN metadata
              /\ {"index", "routing_mode"} \subseteq DOMAIN metadata
              /\ metadata.index = api.args.index
              /\ metadata.routing_mode = api.args.routing_mode

\* a record stored without custom metadata, namespace given
C23_Witness ==
    /\ Returned("add_file_to_queue")
    /\ api.args.metadata = None
    /\ api.args.namespace = Some("namespace")
    /\ DOMAIN JOB_STORE[1].metadata = {"index", "routing_mode", "namespace"}


\* ------------------------------------------------------- the two endpoints
\* POST /v1/ingest and GET /v1/ingest/{job_id}, called on a store that no
\* runner is working on.

\* an UploadFile: its filename and its content type
Upload(filename, content_type) == [filename |-> filename, content_type |-> content_type]
Uploads ==
    { Upload(Some(<<"report", ".", "pdf">>), Some("application/pdf")),
      Upload(Some(<<"notes", ".", "md">>), None),
      Upload(Some(<<"setup", ".", "exe">>), Some("application/octet-stream")),
      Upload(None, None) }
UploadLists == UNION {[1..n -> Uploads] : n \in 0..MaxUploads}

\* the form fields of a request, with the PINECONE_INDEX setting in force
Form(index, pinecone_index, namespace, routing_mode, metadata_json) ==
    [index |-> index, pinecone_index |-> pinecone_index, namespace |-> namespace,
     routing_mode |-> routing_mode, metadata_json |-> metadata_json]
Forms ==
    { Form(Some(<<"portfolio">>), <<"default">>, None, "auto", None),
      Form(None, <<"default">>, Some(<<" ", "projects", " ">>), "manual",
           Some("{\"source\": \"unit-test\"}")),
      Form(Some(<<" ">>), <<"default", " ">>, Some(<<" ">>), "per_chunk", Some("{}")),
      Form(Some(<<" ">>), <<>>, None, "auto", Some(" ")),
      Form(Some(<<"portfolio">>), <<"default">>, None, "manual", None),
      Form(Some(<<"portfolio">>), <<"default">>, Some(<<"projects">>), "auto", None),
      Form(Some(<<"portfolio">>), <<"default">>, Some(<<"blog">>), "manual", None),
      Form(Some(<<"portfolio">>), <<"default">>, None, "auto", Some("{bad json}")),
      Form(Some(<<"portfolio">>), <<"default">>, None, "per_chunk",
           Some("[\"not-an-object\"]")) }

IngestRequests ==
    { [file |-> f, form |-> form] : f \in UploadLists, form \in Forms }

\* namespace = namespace.strip() if namespace else None; "" becomes None
NormalizedNamespace(form) ==
    IF BlankOrNone(form.namespace)
    THEN None
    ELSE Some(Strip(form.namespace[1], Whitespace))

\* index, or the configured index when the field is missing or blank; stripped
EffectiveIndex(form) ==
    Strip(IF BlankOrNone(form.index) THEN form.pinecone_index ELSE form.index[1],
          Whitespace)

\* upload.filename or ""
FilenameOrEmpty(upload) == IF upload.filename = None THEN Some(<<>>) ELSE upload.filename

FileError(upload, form) ==
    ValidateIngestRequest(FilenameOrEmpty(upload), NormalizedNamespace(form),
                          EffectiveIndex(form), form.routing_mode)

\* for upload in file: validate_ingest_request(...), up to the first raise
RECURSIVE FirstFileError(_, _)
FirstFileError(uploads, form) ==
    IF uploads = <<>>
    THEN None
    ELSE LET error == FileError(Head(uploads), form)
         IN IF error # None THEN error ELSE FirstFileError(Tail(uploads), form)

\* a validation loop that looks at the first file only
RequestError_FirstFileOnly(r) ==
    IF Len(r.file) = 0
    THEN Some(Exc("ValueError", "At least one file is required."))
    ELSE IF FileError(r.file[1], r.form) # None
    THEN FileError(r.file[1], r.form)
    ELSE ParseMetadataJson(r.form.metadata_json).raised

\* the try block of ingest_documents (lines 76-88): the first ValueError
\* raised, by the file check, by a file's validation in upload order, or by
\* the metadata parser; None when the request passes
RequestError(r) ==
    IF Len(r.file) = 0
    THEN Some(Exc("ValueError", "At least one file is required."))
    ELSE LET error == FirstFileError(r.file, r.form)
         IN IF error # None
            THEN error
            ELSE ParseMetadataJson(r.form.metadata_json).raised

\* save_uploaded_file: UPLOADS_DIR / job_id / (file.filename or "upload")
SavedPath(job_id, filename) == <<"rag-uploads", job_id, filename>>

\* the keyword arguments ingest_documents passes to add_file_to_queue
QueueArgs(job_id, upload, form) ==
    [job_id |-> job_id,
     filename |-> Str(FilenameOrEmpty(upload)[1]),
     content_type |-> upload.content_type,
     file_path |-> SavedPath(job_id, Str(FilenameOrEmpty(upload)[1])),
     namespace |-> IF NormalizedNamespace(form) = None
                   THEN None ELSE Some(Str(NormalizedNamespace(form)[1])),
     index |-> Str(EffectiveIndex(form)),
     routing_mode |-> form.routing_mode,
     metadata |-> ParseMetadataJson(form.metadata_json).value]

HttpError(status, detail) == [status |-> status, detail |-> detail]

\* IngestAccepted(**kwargs) of models/ingest.py: job_id and received_count are
\* required fields, status has a default, other keywords are ignored
IngestAccepted(kwargs) ==
    IF {"job_id", "received_count"} \subseteq DOMAIN kwargs
    THEN [raised |-> None,
          value |-> Some([job_id |-> kwargs.job_id, status |-> "queued",
                          received_count |-> kwargs.received_count])]
    ELSE [raised |-> Some(Exc("ValidationError", "job_id: Field required")),
          value |-> None]

\* return IngestAccepted(jobs=jobs, received_count=len(jobs)): the 202 reply,
\* or the 500 reply of an exception that leaves the handler
AcceptedResponse(jobs) ==
    LET made == IngestAccepted([jobs |-> jobs, received_count |-> Len(jobs)])
    IN IF made.raised # None
       THEN HttpError(500, made.raised[1].type)
       ELSE [status |-> 202, body |-> made.value[1]]

EndpointsInit ==
    /\ PipelineInit
    /\ router = "idle"
    /\ embedder = "idle"
    /\ upserter = "idle"
    /\ built = {}
    /\ api = [op |-> "startup"]
    /\ snapshot = "idle"
    /\ locks = "idle"

EndpointsFrame == UNCHANGED <<PROCESSING_SEMAPHORE, pc, arg, loc, calls,
                              router, embedder, upserter, built, snapshot, locks>>

\* ingest_documents: everything is validated first; then each upload gets a
\* fresh uuid4, is staged, queued and registered with background_tasks, in
\* order.  The handler has no await between its first and its last statement.
\* jobs and background_tasks are the two lists it has built when it returns.
IngestDocuments(r) ==
    /\ EndpointsFrame
    /\ LET error == RequestError(r) IN
       IF error # None
       THEN /\ api' = [op |-> "ingest_documents", request |-> r,
                       jobs |-> <<>>, background_tasks |-> <<>>,
                       response |-> HttpError(400, error[1].msg)]
            /\ UNCHANGED <<JOB_STORE, JOB_QUEUE, files>>
       ELSE LET n == Len(r.file)
                base == Cardinality(DOMAIN JOB_STORE)
                new == (base + 1)..(base + n)
                args(job_id) == QueueArgs(job_id, r.file[job_id - base], r.form)
            IN /\ base + n <= MaxJobs
               /\ JOB_STORE' = [j \in DOMAIN JOB_STORE \cup new |->
                                   IF j \in new THEN QueuedRecord(args(j))
                                   ELSE JOB_STORE[j]]
               /\ JOB_QUEUE' = JOB_QUEUE \o [i \in 1..n |-> base + i]
               /\ files' = [p \in DOMAIN files \cup {args(j).file_path : j \in new} |->
                               IF p \in DOMAIN files THEN files[p] ELSE 1]
               /\ api' = LET jobs == [i \in 1..n |->
                                         [job_id |-> base + i,
                                          filename |-> args(base + i).filename]]
                          IN [op |-> "ingest_documents", request |-> r,
                              jobs |-> jobs,
                              background_tasks |-> [i \in 1..n |-> base + i],
                              response |-> AcceptedResponse(jobs)]

\* The job_id path parameter: the canonical text of the n-th uuid4 handed
\* out, the same UUID written in upper case, or a text that is no UUID.
StatusKeys ==
    {<<"canonical", n>> : n \in 1..(MaxJobs + 1)}
        \cup {<<"upper", n>> : n \in 1..MaxJobs}
        \cup {<<"not-a-uuid", 0>>}

\* validate_job_id: uuid.UUID(job_id) accepts either case
ValidateJobId(key) ==
    IF key[1] \in {"canonical", "upper"}
    THEN None
    ELSE Some(Exc("ValueError", "Invalid job id."))

\* a lookup by subscript, which raises on a missing key
GetJobRecord_Subscript(store, key) ==
    IF key[1] = "canonical" /\ key[2] \in DOMAIN store
    THEN [raised |-> None, value |-> Some(store[key[2]])]
    ELSE [raised |-> Some(Exc("KeyError", "job_id")), value |-> None]

\* get_job_record: JOB_STORE.get(job_id) under the lock; the store is keyed
\* by the canonical text
GetJobRecord(store, key) ==
    IF key[1] = "canonical" /\ key[2] \in DOMAIN store
    THEN [raised |-> None, value |-> Some(store[key[2]])]
    ELSE [raised |-> None, value |-> None]

\* get_ingest_status
GetIngestStatus(key) ==
    /\ EndpointsFrame
    /\ UNCHANGED <<JOB_STORE, JOB_QUEUE, files>>
    /\ api' =
         IF ValidateJobId(key) # None
         THEN [op |-> "get_ingest_status", key |-> key, consulted |-> FALSE,
               raised |-> None,
               response |-> HttpError(400, ValidateJobId(key)[1].msg)]
         ELSE LET found == GetJobRecord(JOB_STORE, key)
              IN [op |-> "get_ingest_status", key |-> key, consulted |-> TRUE,
                  raised |-> found.raised,
                  response |->
                      IF found.raised # None THEN HttpError(500, found.raised[1].type)
                      ELSE IF found.value = None THEN HttpError(404, "Job not found.")
                      ELSE [status |-> 200, body |-> found.value[1]]]

EndpointsNext ==
    \/ \E r \in IngestRequests : IngestDocuments(r)
    \/ \E key \in StatusKeys : GetIngestStatus(key)

SpecEndpoints == EndpointsInit /\ [][EndpointsNext]_vars

\* some file of the request fails validation, or metadata_json does not parse
ValidationFails(r) ==
    \/ \E i \in DOMAIN r.file : FileError(r.file[i], r.form) # None
    \/ ParseMetadataJson(r.form.metadata_json).raised # None

\* C22: if validation of any file of an ingest request, or of its
\* metadata_json, fails, the request adds no record to JOB_STORE, appends no
\* id to JOB_QUEUE, stages no file and schedules no background task.
C22_NoJobOnValidationFailure ==
    [][ (api'.op = "ingest_documents" /\ ValidationFails(api'.request)) =>
            /\ UNCHANGED <<JOB_STORE, JOB_QUEUE, files, pc, arg>>
            /\ api'.background_tasks = <<>>
            /\ api'.response.status = 400 ]_vars

\* a two-file request whose first file is fine and whose second is an .exe,
\* arriving after a job was accepted
C22_Witness ==
    /\ api.op = "ingest_documents"
    /\ Len(api.request.file) = 2
    /\ FileError(api.request.file[1], api.request.form) = None
    /\ FileError(api.request.file[2], api.request.form) # None
    /\ api.response = HttpError(400, "Unsupported file type '.exe'.")
    /\ Len(JOB_QUEUE) = 1

\* C26: a status lookup with a valid UUID that has no record answers 404
\* "Job not found." without an exception from the store and without creating
\* or changing a record; a job id that is no UUID is answered 400 before the
\* store is consulted.
C26_UnknownIdNotFound ==
    [][ api'.op = "get_ingest_status" =>
            /\ UNCHANGED <<JOB_STORE, JOB_QUEUE>>
            /\ api'.key[1] = "not-a-uuid" =>
                   /\ ~api'.consulted
                   /\ api'.response = HttpError(400, "Invalid job id.")
            /\ (api'.key[1] # "not-a-uuid"
                  /\ ~(api'.key[1] = "canonical" /\ api'.key[2] \in DOMAIN JOB_STORE)) =>
                   /\ api'.consulted
                   /\ api'.raised = None
                   /\ api'.response = HttpError(404, "Job not found.") ]_vars

\* an unknown valid id looked up while the store holds another job
C26_Witness ==
    /\ api.op = "get_ingest_status"
    /\ api.key = <<"canonical", 2>>
    /\ DOMAIN JOB_STORE = {1}
    /\ api.response = HttpError(404, "Job not found.")


\* C30: add_file_to_queue stores, in the step that also appends the job id
\* to JOB_QUEUE, a record keyed by the job id with status queued, the given
\* filename, content type and file path, and a metadata map holding the
\* index, the routing mode, the namespace when one is given and the custom
\* metadata when some is given (an empty map counts as none); afterwards
\* every id in JOB_QUEUE has a record in JOB_STORE.
C30_QueuedRecordStored ==
    [][ (api'.op = "ingest_documents" /\ api'.jobs # <<>>) =>
            LET form == api'.request.form
                jobs == api'.jobs
                custom == ParseMetadataJson(form.metadata_json).value
            IN /\ JOB_QUEUE' = JOB_QUEUE \o [i \in DOMAIN jobs |-> jobs[i].job_id]
               /\ DOMAIN JOB_STORE' = DOMAIN JOB_STORE \cup {jobs[i].job_id : i \in DOMAIN jobs}
               /\ \A j \in DOMAIN JOB_STORE : JOB_STORE'[j] = JOB_STORE[j]
               /\ \A i \in DOMAIN jobs :
                      LET id == jobs[i].job_id
                          record == JOB_STORE'[id]
                          upload == api'.request.file[i]
                      IN /\ id \notin DOMAIN JOB_STORE
                         /\ record.job_id = id
                         /\ record.status = "queued"
                         /\ record.error = None
                         /\ record.chunks_processed = None
                         /\ record.filename = Str(upload.filename[1])
                         /\ record.content_type = upload.content_type
                         /\ record.file_path = SavedPath(id, record.filename)
                         /\ record.file_path \in DOMAIN files'
                         /\ record.metadata.index = Str(EffectiveIndex(form))
                         /\ record.metadata.routing_mode = form.routing_mode
                         /\ IF NormalizedNamespace(form) # None
                            THEN /\ "namespace" \in DOMAIN record.metadata
                                 /\ record.metadata.namespace =
                                        Str(NormalizedNamespace(form)[1])
                            ELSE "namespace" \notin DOMAIN record.metadata
                         /\ IF custom # None /\ DOMAIN custom[1] # {}
                            THEN /\ "metadata" \in DOMAIN record.metadata
                                 /\ record.metadata.metadata = custom[1]
                            ELSE "metadata" \notin DOMAIN record.metadata
               /\ \A k \in DOMAIN JOB_QUEUE' : JOB_QUEUE'[k] \in DOMAIN JOB_STORE' ]_vars

\* two files queued by one manual request with a namespace and custom metadata
C30_Witness ==
    /\ api.op = "ingest_documents"
    /\ Len(api.jobs) = 2
    /\ JOB_QUEUE = <<1, 2>>
    /\ JOB_STORE[2].filename = "notes.md"
    /\ JOB_STORE[2].metadata =
           [index |-> "default", routing_mode |-> "manual", namespace |-> "projects",
            metadata |-> [source |-> "unit-test"]]


\* ------------------------------------------ a status reader and process_job
\* get_job_record returns the stored IngestJobRecord object itself, so the
\* reader's attribute reads happen after JOB_STORE_LOCK is released, while
\* process_job writes the same object from the executor thread.  One record
\* is followed: writer is the position of process_job, reader the position
\* of the status request, seen the attribute values the reader has read.

\* the attributes a response is built from, in the order the model declares them
ReadOrder == <<"status", "error", "chunks_processed">>

SnapshotErrors == {NoIndexError, EmbedRateLimitError, CleanupOSError}

SnapshotInit ==
    /\ PipelineInit
    /\ router = "idle"
    /\ embedder = "idle"
    /\ upserter = "idle"
    /\ built = {}
    /\ api = "idle"
    /\ locks = "idle"
    /\ snapshot = [record |-> [status |-> "queued", error |-> None,
                               chunks_processed |-> None],
                   writer |-> "try", exc |-> None,
                   reader |-> 0, seen |-> <<>>]

SnapshotFrame == UNCHANGED <<pipeline_vars, router, embedder, upserter, built, api, locks>>

\* _update_status(job_id, s) for the next stage of the pipeline
WriterUpdateStatus ==
    /\ snapshot.writer = "try"
    /\ \E i \in 1..4 :
          /\ snapshot.record.status = PipelineOrder[i]
          /\ snapshot' = [snapshot EXCEPT !.record.status = PipelineOrder[i + 1]]
    /\ SnapshotFrame

\* an exception raised inside the try block, before the completion writes
WriterRaise(e) ==
    /\ snapshot.writer = "try"
    /\ e # CleanupOSError
    /\ snapshot' = [snapshot EXCEPT !.writer = "caught", !.exc = Some(e)]
    /\ SnapshotFrame

\* line 250: record.chunks_processed = len(chunks), outside the lock
WriterSetChunksProcessed(n) ==
    /\ snapshot.writer = "try"
    /\ snapshot.record.status = "upserting"
    /\ snapshot' = [snapshot EXCEPT !.record.chunks_processed = Some(n),
                                    !.writer = "counted"]
    /\ SnapshotFrame

\* line 251: _update_status(job_id, "completed")
WriterComplete ==
    /\ snapshot.writer = "counted"
    /\ snapshot' = [snapshot EXCEPT !.record.status = "completed",
                                    !.writer = "cleanup"]
    /\ SnapshotFrame

\* line 252: cleanup_job_files returns, or raises inside the try block
WriterCleanup ==
    /\ snapshot.writer = "cleanup"
    /\ \/ snapshot' = [snapshot EXCEPT !.writer = "returned"]
       \/ snapshot' = [snapshot EXCEPT !.writer = "caught", !.exc = Some(CleanupOSError)]
    /\ SnapshotFrame

\* line 268: record.status = "failed", with JOB_STORE_LOCK taken
HandlerSetStatus ==
    /\ snapshot.writer = "caught"
    /\ snapshot' = [snapshot EXCEPT !.record.status = "failed", !.writer = "locked"]
    /\ SnapshotFrame

\* line 269: record.error = error_msg; the lock is released
HandlerSetError ==
    /\ snapshot.writer = "locked"
    /\ snapshot' = [snapshot EXCEPT !.record.error = Some(ErrorMsg(snapshot.exc[1])),
                                    !.writer = "returned"]
    /\ SnapshotFrame

\* get_job_record: the lookup waits for JOB_STORE_LOCK and returns the object
ReaderGetJobRecord ==
    /\ snapshot.reader = 0
    /\ snapshot.writer # "locked"
    /\ snapshot' = [snapshot EXCEPT !.reader = 1]
    /\ SnapshotFrame

\* the next attribute of the returned object is read, without the lock
ReaderReadField ==
    /\ snapshot.reader \in DOMAIN ReadOrder
    /\ LET field == ReadOrder[snapshot.reader]
       IN snapshot' = [snapshot EXCEPT
              !.reader = snapshot.reader + 1,
              !.seen = [f \in DOMAIN snapshot.seen \cup {field} |->
                           IF f = field THEN snapshot.record[field]
                           ELSE snapshot.seen[f]]]
    /\ SnapshotFrame

SnapshotNext ==
    \/ WriterUpdateStatus
    \/ \E e \in SnapshotErrors : WriterRaise(e)
    \/ \E n \in 1..MaxChunks : WriterSetChunksProcessed(n)
    \/ WriterComplete
    \/ WriterCleanup
    \/ HandlerSetStatus
    \/ HandlerSetError
    \/ ReaderGetJobRecord
    \/ ReaderReadField

SpecSnapshot == SnapshotInit /\ [][SnapshotNext]_vars

\* C24: a reader that obtained the record through get_job_record while
\* process_job runs never observes status failed with error unset, nor
\* status completed with chunks_processed unset.
C24_ConsistentSnapshot ==
    snapshot.reader = Len(ReadOrder) + 1 =>
        /\ ~(snapshot.seen.status = "failed" /\ snapshot.seen.error = None)
        /\ ~(snapshot.seen.status = "completed" /\ snapshot.seen.chunks_processed = None)


\* ------------------------------------------------- fields of a job record
\* C25: in every reachable state of a job record, chunks_processed is set
\* only if the status is completed, error is set only if the status is
\* failed, and no record has both set.
C25_OutcomeFieldsExclusive ==
    \A j \in DOMAIN JOB_STORE :
        /\ JOB_STORE[j].chunks_processed # None => JOB_STORE[j].status = "completed"
        /\ JOB_STORE[j].error # None => JOB_STORE[j].status = "failed"
        /\ ~(JOB_STORE[j].chunks_processed # None /\ JOB_STORE[j].error # None)


\* ------------------------------------------------ extensions and the parser
\* parse_file failed with one of its two unsupported-type errors
UnsupportedFormat(raised, filename) ==
    raised \in
        { Some(Exc("ValueError", "Unsupported file type '" \o SplitExt(filename) \o "'.")),
          Some(Exc("ValueError",
                   "Unsupported text file type '" \o SplitExt(filename) \o "'.")) }

\* C27: parse_file fails with an unsupported-format error exactly when the
\* extension of the file is outside the allowed set, and every file name
\* that intake validation accepts, .md included, is parsed without an
\* unsupported-type failure.
C27_UnsupportedExactlyOutsideAllowed ==
    (Returned("parse_file") /\ api.args.exists) =>
        /\ UnsupportedFormat(api.raised, api.args.filename)
               <=> SplitExt(api.args.filename) \notin ALLOWED_EXTENSIONS
        /\ ValidateIngestRequest(Some(api.args.filename), None, <<"portfolio">>, "auto") = None
               => ~UnsupportedFormat(api.raised, api.args.filename)


\* ------------------------------------------- a record without routing mode
\* The store as the unit tests prepare it: a queued record written straight
\* into JOB_STORE, whose metadata map holds a namespace and an index but no
\* routing_mode, with its file in place.
FixtureRecord ==
    [status |-> "queued",
     file_path |-> StagedPath(1),
     metadata |-> [namespace |-> "projects", index |-> "portfolio"],
     error |-> None,
     chunks_processed |-> None]

FixtureInit ==
    /\ JOB_STORE = <<FixtureRecord>>
    /\ JOB_QUEUE = <<1>>
    /\ PROCESSING_SEMAPHORE = 1
    /\ files \in {[p \in {StagedPath(1)} |-> n] : n \in 1..MaxChunks}
    /\ pc = [t \in Tasks |-> "idle"]
    /\ arg = [t \in Tasks |-> 0]
    /\ loc = [t \in Tasks |-> NoLocals]
    /\ calls = [t \in Tasks |-> NoCalls]
    /\ ClientsIdle

SpecFixture == FixtureInit /\ [][Next]_vars

\* the stored configuration of the job has a namespace and an index but no
\* routing mode
NoRoutingMode(job_id) ==
    /\ job_id \in DOMAIN JOB_STORE
    /\ {"namespace", "index"} \subseteq DOMAIN JOB_STORE[job_id].metadata
    /\ "routing_mode" \notin DOMAIN JOB_STORE[job_id].metadata

\* the exceptions of the parser, the embedder, the vector store and the cleanup
ExternalErrors ==
    {FileMissingError, EmptyFileError, NoContentError, EmbedRateLimitError,
     UpsertPineconeError, CleanupOSError}
        \cup {CountMismatchError(n, n + 1) : n \in 1..MaxChunks}

\* C28: for a record whose stored configuration holds a namespace and an
\* index but no routing mode, when parsing, embedding, upsert and cleanup do
\* not fail, process_job ends with status completed, error unset and
\* chunks_processed greater than zero, after one cleanup call and exactly one
\* upsert call, which is addressed to the stored namespace.
C28_StoredNamespaceWithoutMode ==
    \A t \in Tasks :
        (/\ pc[t] = "release"
         /\ NoRoutingMode(arg[t])
         /\ loc[t].exc = None \/ loc[t].exc[1] \notin ExternalErrors) =>
            LET record == JOB_STORE[arg[t]]
            IN /\ record.status = "completed"
               /\ record.error = None
               /\ record.chunks_processed # None
               /\ record.chunks_processed[1] > 0
               /\ calls[t].cleanup = 1
               /\ calls[t].upsert = 1
               /\ Len(loc[t].groups) = 1
               /\ loc[t].groups[1].namespace = record.metadata.namespace


\* ---------------------------------------------------------------- progress
\* The event loop resumes a coroutine that can enter the gate or leave it,
\* and the executor thread runs process_job to its end: its external calls
\* return or raise.
SpecFair ==
    /\ Init
    /\ [][Next]_vars
    /\ \A t \in Tasks : WF_vars(Acquire(t))
    /\ \A t \in Tasks : WF_vars(ProcessJob(t))
    /\ \A t \in Tasks : WF_vars(Release(t))

\* C29: under fair scheduling and terminating external calls, every job
\* scheduled through process_job_with_limit eventually acquires the gate,
\* every job admitted past the gate eventually reaches completed or failed,
\* and the gate is released on every exit path, so that a failed job never
\* blocks later jobs.
C29_EventualAdmissionAndCompletion ==
    \A t \in Tasks :
        /\ (pc[t] = "waiting") ~> (pc[t] = "load")
        /\ (pc[t] = "load" /\ arg[t] \in DOMAIN JOB_STORE)
               ~> (/\ pc[t] = "release"
                   /\ arg[t] \in DOMAIN JOB_STORE
                   /\ JOB_STORE[arg[t]].status \in Terminal)
        /\ (pc[t] \in BodyPcs) ~> (pc[t] = "done")

\* a second job is admitted after the first one failed and left the gate
C29_Witness ==
    /\ pc[1] = "done"
    /\ pc[2] = "load"
    /\ arg[2] = 2
    /\ DOMAIN JOB_STORE = {1, 2}
    /\ JOB_STORE[1].status = "failed"
    /\ PROCESSING_SEMAPHORE = 0

\* ------------------------------------------------------- upsert failure
\* the number of vectors in the first n groups
RECURSIVE VectorsInGroups(_, _)
VectorsInGroups(groups, n) ==
    IF n = 0 THEN 0 ELSE Len(groups[n].vectors) + VectorsInGroups(groups, n - 1)

\* the invocation of task t has had upsert_vectors fail
UpsertFailed(t) == loc[t].exc = Some(UpsertPineconeError)

\* C31: when the upsert of one namespace group fails, the invocation goes to
\* its handler and returns with the job failed with that cause; the failing
\* call is its last upsert call, the vectors of the groups written before it
\* stay counted as written, chunks_processed is as the invocation found it
\* and cleanup_job_files has not been called.
C31_UpsertFailureAborts ==
    \A t \in Tasks :
        UpsertFailed(t) =>
            /\ pc[t] \in {"handler", "release"}
            /\ calls[t].upsert = loc[t].next_group
            /\ calls[t].vectors = VectorsInGroups(loc[t].groups, loc[t].next_group - 1)
            /\ calls[t].cleanup = 0
            /\ JOB_STORE[arg[t]].chunks_processed = loc[t].entry[1].chunks_processed
            /\ pc[t] = "release" =>
                   /\ JOB_STORE[arg[t]].status = "failed"
                   /\ JOB_STORE[arg[t]].error = Some("PineconeException: upsert failed")

\* the second of two namespace groups failed after the first was written; the
\* invocation has returned and the job, never completed before, has no count
C31_Witness ==
    \E t \in Tasks :
        /\ UpsertFailed(t)
        /\ pc[t] = "release"
        /\ Len(loc[t].groups) = 2
        /\ loc[t].next_group = 2
        /\ calls[t].vectors = 1
        /\ JOB_STORE[arg[t]].chunks_processed = None

\* ------------------------------------------- embedding and vector assembly
\* Lines 194-248 of process_job followed on their own over lists of parsed
\* chunks and their routed namespaces: the texts handed to
\* embed_texts_batched, the zip into vector records, the grouping by
\* namespace and the upsert calls.

MaxAssembled == 3

\* chunker.contextualize(chunk): the headings above the chunk joined with
\* its text; the text itself for a chunk without heading
Contextualize(heading, text) ==
    IF heading = "" THEN text ELSE heading \o "\n" \o text

\* the ParsedChunk _parse_with_docling builds for the i-th chunk of a document
ParsedChunk(text, heading, i) ==
    [text |-> text,
     metadata |-> [source_path |-> "rag-uploads/notes.md",
                   document_title |-> "notes.md",
                   heading |-> heading,
                   page_number |-> 1,
                   chunk_index |-> i,
                   context_summary |-> Contextualize(heading, text)]]

\* chunk lists of one to MaxAssembled chunks, with and without headings,
\* each with a routed namespace per chunk
AssemblyInputs ==
    UNION { { [chunks |-> [i \in 1..n |-> ParsedChunk(tx[i], hd[i], i)],
               chunk_namespaces |-> ns] :
                tx \in [1..n -> {"alpha", "beta"}],
                hd \in [1..n -> {"", "Intro"}],
                ns \in [1..n -> ClassifierAnswers] } :
            n \in 1..MaxAssembled }

\* the raw chunk text as the text to embed
ContextualizedText_RawText(chunk) == chunk.text

\* chunk.metadata.get("context_summary", chunk.text)
ContextualizedText(chunk) == Get(chunk.metadata, "context_summary", chunk.text)

\* contextualized_texts (lines 197-199)
ContextualizedTexts(chunks) ==
    [i \in 1..Len(chunks) |-> ContextualizedText(chunks[i])]

\* the vector dicts of zip(chunks, embeddings, chunk_namespaces), in zip order
ZipVectors(chunks, embeddings, user_meta, content_type) ==
    [i \in 1..Min(Len(chunks), Len(embeddings)) |->
        BuildVector(chunks[i], embeddings[i], user_meta, content_type)]

\* a grouping that files every vector under the namespace of the first chunk
VectorsByNamespace_FirstNamespace(vectors, chunk_namespaces) ==
    GroupByNamespace(vectors, [i \in 1..Len(chunk_namespaces) |-> chunk_namespaces[1]],
                     <<>>)

\* vectors_by_namespace after the loop of lines 219-236
VectorsByNamespace(vectors, chunk_namespaces) ==
    GroupByNamespace(vectors, chunk_namespaces, <<>>)

AssemblyInit ==
    /\ PipelineInit
    /\ router = "idle"
    /\ embedder = "idle"
    /\ upserter = "idle"
    /\ built = {}
    /\ snapshot = "idle"
    /\ locks = "idle"
    /\ api \in { [op |-> "embedding", chunks |-> a.chunks,
                  chunk_namespaces |-> a.chunk_namespaces,
                  texts |-> <<>>, embeddings |-> <<>>,
                  groups |-> <<>>, upserts |-> <<>>, exc |-> None] :
                 a \in AssemblyInputs }

AssemblyFrame ==
    UNCHANGED <<pipeline_vars, router, embedder, upserter, built, snapshot, locks>>

\* lines 197-199: the list handed to embed_texts_batched
AssembleTexts ==
    /\ api.op = "embedding"
    /\ api' = [api EXCEPT !.texts = ContextualizedTexts(api.chunks),
                          !.op = "embed"]
    /\ AssemblyFrame

\* embed_texts_batched returns one vector per text, in order (C15), or raises
AssembleEmbeddings ==
    /\ api.op = "embed"
    /\ \/ api' = [api EXCEPT
                    !.embeddings = [i \in 1..Len(api.texts) |-> Embedding(api.texts[i])],
                    !.op = "upserting"]
       \/ api' = [api EXCEPT !.exc = Some(EmbedRateLimitError), !.op = "failed"]
    /\ AssemblyFrame

\* lines 218-236: the zip and the grouping
AssembleVectors ==
    /\ api.op = "upserting"
    /\ api' = [api EXCEPT
                 !.groups =
                     VectorsByNamespace(
                         ZipVectors(api.chunks, api.embeddings,
                                    [source_url |-> "https://example.org/notes"],
                                    "text/markdown"),
                         api.chunk_namespaces),
                 !.op = "upsert"]
    /\ AssemblyFrame

\* lines 240-248: upsert_vectors for the next group; a failure ends the loop
AssembleUpsert ==
    /\ api.op = "upsert"
    /\ LET g == Len(api.upserts) + 1
       IN IF g > Len(api.groups)
          THEN api' = [api EXCEPT !.op = "completed"]
          ELSE LET call == [namespace |-> api.groups[g].namespace,
                            vectors |-> api.groups[g].vectors]
               IN \/ api' = [api EXCEPT !.upserts = Append(@, call)]
                  \/ api' = [api EXCEPT !.upserts = Append(@, call),
                                        !.exc = Some(UpsertPineconeError),
                                        !.op = "failed"]
    /\ AssemblyFrame

AssemblyNext ==
    \/ AssembleTexts
    \/ AssembleEmbeddings
    \/ AssembleVectors
    \/ AssembleUpsert

SpecAssembly == AssemblyInit /\ [][AssemblyNext]_vars

\* the vector records of all groups
GroupedVectors(groups) ==
    UNION { {groups[g].vectors[k] : k \in 1..Len(groups[g].vectors)} :
            g \in 1..Len(groups) }

\* C32: the text handed to the embedder for the i-th chunk is that chunk's
\* context summary, in chunk order, and the vector record assembled for the
\* i-th chunk carries the embedding of the i-th text and lies in the group
\* of the i-th routed namespace.
C32_ContextEmbeddedInOrder ==
    /\ api.op # "embedding" =>
          /\ Len(api.texts) = Len(api.chunks)
          /\ \A i \in 1..Len(api.chunks) :
                api.texts[i] = api.chunks[i].metadata.context_summary
    /\ api.op \in {"upsert", "completed"} =>
          \A i \in 1..Len(api.chunks) :
              \E g \in 1..Len(api.groups) :
                  /\ api.groups[g].namespace = api.chunk_namespaces[i]
                  /\ \E k \in 1..Len(api.groups[g].vectors) :
                        LET v == api.groups[g].vectors[k]
                        IN /\ v.metadata.chunk_index = i
                           /\ v.metadata.text = api.chunks[i].text
                           /\ v.values = api.embeddings[i]
                           /\ v.values = Embedding(api.chunks[i].metadata.context_summary)

\* three chunks under headings, so that every context summary differs from
\* the raw text, routed to two namespaces and assembled
C32_Witness ==
    /\ api.op = "upsert"
    /\ Len(api.chunks) = 3
    /\ \A i \in 1..3 : api.texts[i] # api.chunks[i].text
    /\ Len(api.groups) = 2

\* the (group, position) pairs of the vector records built from chunk i
PlacesOf(groups, i) ==
    { <<g, k>> \in (1..Len(groups)) \X (1..MaxAssembled + 1) :
        /\ k <= Len(groups[g].vectors)
        /\ groups[g].vectors[k].metadata.chunk_index = i }

\* C39: after vector assembly every chunk has exactly one vector record, in
\* the group of the namespace routed for it; the groups are non-empty, have
\* distinct namespaces and sizes that sum to the number of chunks, and keep
\* chunk order; upsert_vectors is called once per group, in group order,
\* with that group's namespace and records.
C39_GroupingIsPartition ==
    LET groups == api.groups
        n == Len(api.chunks)
    IN /\ api.op \in {"upsert", "completed"} \/ api.upserts # <<>> =>
             /\ \A i \in 1..n :
                   /\ Cardinality(PlacesOf(groups, i)) = 1
                   /\ \A p \in PlacesOf(groups, i) :
                         groups[p[1]].namespace = api.chunk_namespaces[i]
             /\ \A g \in 1..Len(groups) :
                   /\ groups[g].vectors # <<>>
                   /\ \A h \in 1..Len(groups) :
                         groups[g].namespace = groups[h].namespace => g = h
                   /\ \A k \in 1..(Len(groups[g].vectors) - 1) :
                         groups[g].vectors[k].metadata.chunk_index
                             < groups[g].vectors[k + 1].metadata.chunk_index
             /\ VectorsInGroups(groups, Len(groups)) = n
       /\ Len(api.upserts) <= Len(groups)
       /\ \A g \in 1..Len(api.upserts) :
             /\ api.upserts[g].namespace = groups[g].namespace
             /\ api.upserts[g].vectors = groups[g].vectors
       /\ api.op = "completed" => Len(api.upserts) = Len(groups)

\* three chunks routed projects, personal, projects: the first and third
\* share a group, and both groups have been written
C39_Witness ==
    /\ api.op = "completed"
    /\ Len(api.chunks) = 3
    /\ api.chunk_namespaces[1] = api.chunk_namespaces[3]
    /\ api.chunk_namespaces[1] # api.chunk_namespaces[2]
    /\ Len(api.upserts) = 2
    /\ Len(api.upserts[1].vectors) = 2

\* --------------------------------------------------- ownership of records
\* the step is one of the process_job invocation run by task t
ProcessJobStep(t) ==
    /\ pc[t] \in BodyPcs
    /\ \/ pc'[t] # pc[t]
       \/ loc'[t] # loc[t]
       \/ calls'[t] # calls[t]

\* C33: a step of the process_job invocation for job A changes the record of
\* no other job, leaves JOB_QUEUE and the set of stored job ids unchanged,
\* and a stored record changes only in a step of an invocation for its job.
C33_OwnRecordOnly ==
    [][/\ \A t \in Tasks :
             ProcessJobStep(t) =>
                 /\ JOB_QUEUE' = JOB_QUEUE
                 /\ DOMAIN JOB_STORE' = DOMAIN JOB_STORE
                 /\ \A j \in DOMAIN JOB_STORE \ {arg[t]} : JOB_STORE'[j] = JOB_STORE[j]
       /\ \A j \in DOMAIN JOB_STORE :
             (j \in DOMAIN JOB_STORE' /\ JOB_STORE'[j] # JOB_STORE[j]) =>
                 \E t \in Tasks : ProcessJobStep(t) /\ arg[t] = j]_vars

\* the job of the second request is being embedded while the record of the
\* first, which failed earlier, is in the store
C33_Witness ==
    \E t \in Tasks :
        /\ pc[t] = "embed"
        /\ arg[t] = 2
        /\ DOMAIN JOB_STORE = {1, 2}
        /\ JOB_STORE[1].status = "failed"
        /\ JOB_STORE[2].status = "embedding"

\* --------------------------------------------------------- stage alignment
\* the invocation of task t makes a call of the given kind in this step
Calls(t, kind) == calls'[t][kind] > calls[t][kind]

\* C34: within one process_job invocation parse_file is called only while
\* the record's status is chunking, the classifier only while it is routing,
\* embed_texts_batched only while it is embedding, upsert_vectors only while
\* it is upserting and cleanup_job_files only once it is completed; no call
\* of an earlier stage follows a call of a later one, and embedding, upsert
\* and cleanup are each preceded by the stage before.
C34_StageAlignment ==
    [][\A t \in Tasks :
          LET status == JOB_STORE[arg[t]].status
              made == calls[t]
          IN /\ Calls(t, "parse") =>
                   /\ status = "chunking"
                   /\ made.parse = 0 /\ made.classify = 0 /\ made.embed = 0
                   /\ made.upsert = 0 /\ made.cleanup = 0
             /\ Calls(t, "classify") =>
                   /\ status = "routing"
                   /\ made.parse = 1 /\ made.embed = 0
                   /\ made.upsert = 0 /\ made.cleanup = 0
             /\ Calls(t, "embed") =>
                   /\ status = "embedding"
                   /\ made.parse = 1 /\ made.embed = 0
                   /\ made.upsert = 0 /\ made.cleanup = 0
             /\ Calls(t, "upsert") =>
                   /\ status = "upserting"
                   /\ made.parse = 1 /\ made.embed = 1 /\ made.cleanup = 0
             /\ Calls(t, "cleanup") =>
                   /\ status = "completed"
                   /\ made.parse = 1 /\ made.embed = 1
                   /\ made.upsert >= 1 /\ made.cleanup = 0]_vars

\* an invocation has gone through every stage: one parse, two classifier
\* calls, one embedding call, two upserts and the cleanup
C34_Witness ==
    \E t \in Tasks :
        /\ pc[t] = "release"
        /\ calls[t].parse = 1
        /\ calls[t].classify = 2
        /\ calls[t].embed = 1
        /\ calls[t].upsert = 2
        /\ calls[t].cleanup = 1
        /\ JOB_STORE[arg[t]].status = "completed"

\* ------------------------------------------------------- chunks of a job
\* the invocation of task t is past parse_file, which returned
Parsed(t) == pc[t] \in BodyPcs /\ loc[t].docling # None

\* C35: parse_file raises or returns at least one chunk: the chunks of the
\* chunker, or the single full-document chunk when the chunker yields none
\* and the markdown export has text; it raises when the export is blank.
\* chunks_processed is at least 1 for every completed job.
C35_CompletedHasChunks ==
    /\ \A t \in Tasks :
          Parsed(t) =>
              LET d == loc[t].docling[1]
              IN /\ Len(loc[t].chunks) >= 1
                 /\ d.chunks = 0 => (Len(loc[t].chunks) = 1 /\ ~IsBlank(d.markdown))
                 /\ d.chunks > 0 => Len(loc[t].chunks) = d.chunks
    /\ \A t \in Tasks :
          (pc[t] \in {"handler", "release"} /\ loc[t].exc = Some(NoContentError)) =>
              /\ loc[t].docling = None
              /\ calls[t].embed = 0
    /\ \A j \in DOMAIN JOB_STORE :
          JOB_STORE[j].status = "completed" =>
              /\ JOB_STORE[j].chunks_processed # None
              /\ JOB_STORE[j].chunks_processed[1] >= 1

\* the chunker yielded nothing for a staged document with text for two
\* chunks; the job completed with the one full-document chunk
C35_Witness ==
    \E t \in Tasks :
        /\ pc[t] = "release"
        /\ loc[t].docling = Some([chunks |-> 0, markdown |-> "text"])
        /\ arg[t] \in DOMAIN JOB_STORE
        /\ JOB_STORE[arg[t]].status = "completed"
        /\ JOB_STORE[arg[t]].chunks_processed = Some(1)

\* ------------------------------------------------- the temporary text file
\* _parse_text_with_docling followed on its own over a file system that
\* holds the job's input file and the files tempfile creates.

MaxStaged == 2

\* the text json.dumps(..., ensure_ascii=False) produces for a JSON document
\* with the escape of a lone surrogate: a str that UTF-8 cannot encode
LoneSurrogate == "U+D800"

\* str.encode("utf-8") succeeds
Utf8Encodable(text) == text # LoneSurrogate

\* extension and normalized text of the inputs: blank and plain text for
\* each extension, and the JSON document with the surrogate escape
StagingInputs ==
    ({".txt", ".json", ".csv"} \X {" ", "Test content for processing."})
        \cup {<<".json", LoneSurrogate>>}

UploadPath(n) == <<"rag-uploads", n>>
TempPath(n) == <<"tmp", n>>

\* fs with the file at path holding text
WriteFile(fs, path, text) ==
    [p \in DOMAIN fs \cup {path} |-> IF p = path THEN text ELSE fs[p]]

\* os.remove(path)
RemoveFile(fs, path) == [p \in DOMAIN fs \ {path} |-> fs[p]]

StagingInit ==
    /\ PipelineInit
    /\ router = "idle"
    /\ embedder = "idle"
    /\ upserter = "idle"
    /\ built = {}
    /\ snapshot = "idle"
    /\ locks = "idle"
    /\ api = [op |-> "idle", n |-> 0, fs |-> <<>>, ext |-> "", text |-> "",
              temp_path |-> None, chunks |-> 0, exc |-> None]

StagingFrame ==
    UNCHANGED <<pipeline_vars, router, embedder, upserter, built, snapshot, locks>>

\* parse_file reaches _parse_text_with_docling(path, ext) for the n-th upload
StagingCall(ext, text) ==
    /\ api.op \in {"idle", "ended"}
    /\ api.n < MaxStaged
    /\ api' = [api EXCEPT !.op = "read", !.n = @ + 1,
                          !.fs = WriteFile(@, UploadPath(api.n + 1), text),
                          !.ext = ext, !.text = text,
                          !.temp_path = None, !.chunks = 0, !.exc = None]
    /\ StagingFrame

\* lines 118-120: the payload is read; blank text raises before any file is
\* written
StagingRead ==
    /\ api.op = "read"
    /\ LET e == ParseTextWithDocling(api.ext, api.fs[UploadPath(api.n)])
       IN api' = IF e # None
                 THEN [api EXCEPT !.op = "ended", !.exc = e]
                 ELSE [api EXCEPT !.op = "write"]
    /\ StagingFrame

\* _write_temp_text (line 122): NamedTemporaryFile(delete=False) creates the
\* file, then the text is written; an encoding error leaves the function,
\* and _parse_text_with_docling, before the try block is entered
StagingWrite ==
    /\ api.op = "write"
    /\ api' = IF Utf8Encodable(api.text)
              THEN [api EXCEPT !.op = "parse",
                               !.fs = WriteFile(@, TempPath(api.n), api.text),
                               !.temp_path = Some(TempPath(api.n))]
              ELSE [api EXCEPT !.op = "ended",
                               !.fs = WriteFile(@, TempPath(api.n), ""),
                               !.exc = Some(Exc("UnicodeEncodeError",
                                                "surrogates not allowed"))]
    /\ StagingFrame

\* line 124: _parse_with_docling(temp_path, source_path=path) returns or raises
StagingParse(d) ==
    /\ api.op = "parse"
    /\ LET r == ParseWithDocling(d)
       IN api' = [api EXCEPT !.op = "finally", !.chunks = Len(r.chunks),
                             !.exc = r.raised]
    /\ StagingFrame

\* lines 125-126 and _safe_remove: os.remove(temp_path), an OSError swallowed
StagingRemove ==
    /\ api.op = "finally"
    /\ \/ api' = [api EXCEPT !.op = "ended",
                             !.fs = RemoveFile(@, api.temp_path[1])]
       \/ api' = [api EXCEPT !.op = "ended"]
    /\ StagingFrame

StagingNext ==
    \/ \E a \in StagingInputs : StagingCall(a[1], a[2])
    \/ StagingRead
    \/ StagingWrite
    \/ \E d \in DoclingResults(1) : StagingParse(d)
    \/ StagingRemove

SpecStaging == StagingInit /\ [][StagingNext]_vars

\* C36: once _parse_text_with_docling has ended for a txt, json or csv
\* input, having returned or raised, the temporary file it created is gone
\* and the input file holds what it held.
C36_TempFileRemoved ==
    api.op = "ended" =>
        /\ TempPath(api.n) \notin DOMAIN api.fs
        /\ api.fs[UploadPath(api.n)] = api.text

\* ------------------------------------------------------ batching and pacing
\* ceil(n / 20), computed without the code's rounding formula
CeilBatches(n) ==
    CHOOSE k \in 0..n :
        /\ k * EMBEDDING_BATCH_SIZE >= n
        /\ k > 0 => (k - 1) * EMBEDDING_BATCH_SIZE < n

\* the texts of the b-th run of 20 of a list
Run(texts, b) ==
    SubSeq(texts, (b - 1) * EMBEDDING_BATCH_SIZE + 1,
           Min(b * EMBEDDING_BATCH_SIZE, Len(texts)))

\* C37: embed_texts_batched sends the runs of 20 texts of its input as
\* batches in input order, each of at most 20 texts, and sleeps the
\* inter-batch delay once after each batch that returned except the last;
\* when it returns for N texts it has issued ceil(N/20) batches and slept
\* ceil(N/20) - 1 times, not at all for N = 0 or a single batch.
C37_BatchingAndPacing ==
    [][LET texts == embedder.texts
           N == Len(texts)
           sent == {b \in DOMAIN embedder.issued :
                      embedder'.issued[b] > embedder.issued[b]}
           returned == embedder'.i > embedder.i
       IN /\ \A b \in sent :
                /\ sent = {b}
                /\ \A k \in 1..(b - 1) : embedder.issued[k] >= 1
                /\ \A k \in (b + 1)..CeilBatches(N) : embedder.issued[k] = 0
                /\ Batch(texts, embedder.i) = Run(texts, b)
                /\ Len(Run(texts, b)) \in 1..EMBEDDING_BATCH_SIZE
          /\ embedder'.sleeps =
                embedder.sleeps
                    + (IF returned /\ embedder'.i < N THEN 1 ELSE 0)
          /\ embedder'.status = "returned" =>
                /\ DOMAIN embedder'.issued = 1..CeilBatches(N)
                /\ \A b \in 1..CeilBatches(N) : embedder'.issued[b] >= 1
                /\ embedder'.sleeps = (IF N = 0 THEN 0 ELSE CeilBatches(N) - 1)]_vars

\* 21 texts were embedded in two batches with one delay between them
C37_Witness ==
    /\ embedder.status = "returned"
    /\ Len(embedder.texts) = EMBEDDING_BATCH_SIZE + 1
    /\ embedder.issued[1] >= 1
    /\ embedder.issued[2] >= 1
    /\ embedder.sleeps = 1

\* ------------------------------------------------------------- blank input
\* the batch embed_texts is about to be attempted on holds a blank text
BlankBatch ==
    /\ embedder.status = "running"
    /\ \E k \in (embedder.i + 1)..Min(embedder.i + EMBEDDING_BATCH_SIZE,
                                       Len(embedder.texts)) :
          embedder.texts[k] \in {"", " "}

\* C38: an attempt of embed_texts on a batch that holds an empty or
\* whitespace-only text raises ValueError without a call to the embedding
\* provider for that batch and without a retry; the job then ends failed
\* with that error and without any upsert call.
C38_BlankRejected ==
    [][/\ BlankBatch =>
             /\ embedder'.issued = embedder.issued
             /\ embedder.issued[BatchNum(embedder.i)] = 0
             /\ embedder.attempt = 1
             /\ embedder'.status = "raised"
             /\ embedder'.exc = Some("ValueError")
       /\ embedder'.exc = Some("ValueError") =>
             /\ embedder'.job.upserts = 0
             /\ embedder'.job.status \in {"embedding", "failed"}
             /\ embedder'.job.status # embedder.job.status =>
                   /\ embedder'.job.status = "failed"
                   /\ embedder'.job.error =
                         Some("ValueError: All texts must be non-empty strings for embedding.")]_vars

\* the 21st of 39 texts is blank: the first batch was embedded, the second
\* was never sent, and the job has failed without an upsert
C38_Witness ==
    /\ embedder.exc = Some("ValueError")
    /\ Len(embedder.texts) = 2 * EMBEDDING_BATCH_SIZE - 1
    /\ embedder.issued[1] >= 1
    /\ embedder.issued[2] = 0
    /\ embedder.job.status = "failed"
    /\ embedder.job.upserts = 0

\* ------------------------------------------------------- the job store lock
\* process_job as the sequence of its lock operations, record accesses and
\* external calls, run by the executor thread while a status request
\* (get_job_record) and an upload (add_file_to_queue) take the lock from
\* other threads.

Step(op, what) == [op |-> op, what |-> what]

\* _update_status(job_id, status)
UpdateStatusSteps(status) ==
    <<Step("acquire", "_update_status"), Step("write", status),
      Step("release", "_update_status")>>

\* a process_job that parses inside the lock it took for the status update
ProcessJobSteps_LockAcrossParse ==
    <<Step("acquire", "lookup"), Step("read", "record"), Step("release", "lookup")>>
        \o <<Step("acquire", "_update_status"), Step("write", "chunking"),
             Step("call", "parse_file"), Step("release", "_update_status")>>
        \o <<Step("return", "process_job")>>
        \o <<Step("acquire", "handler"), Step("write", "failed"),
             Step("write", "error"), Step("release", "handler"),
             Step("return", "process_job")>>

\* process_job, lines 132-253, then the except clause, lines 255-269
ProcessJobSteps ==
    <<Step("acquire", "lookup"), Step("read", "record"), Step("release", "lookup")>>
        \o UpdateStatusSteps("chunking")
        \o <<Step("call", "parse_file")>>
        \o UpdateStatusSteps("routing")
        \o <<Step("call", "classify")>>
        \o <<Step("acquire", "fallback"), Step("write", "routing_fallback_used"),
             Step("release", "fallback")>>
        \o UpdateStatusSteps("embedding")
        \o <<Step("call", "embed_texts"), Step("call", "time.sleep"),
             Step("call", "embed_texts")>>
        \o UpdateStatusSteps("upserting")
        \o <<Step("call", "upsert_vectors")>>
        \o <<Step("write", "chunks_processed")>>
        \o UpdateStatusSteps("completed")
        \o <<Step("call", "cleanup_job_files"), Step("return", "process_job")>>
        \o <<Step("acquire", "handler"), Step("write", "failed"),
             Step("write", "error"), Step("release", "handler"),
             Step("return", "process_job")>>

\* where the except clause starts
HandlerStart(steps) ==
    CHOOSE i \in DOMAIN steps : steps[i] = Step("acquire", "handler")

\* the threads that call get_job_record and add_file_to_queue
LockClients == {"get_job_record", "add_file_to_queue"}

LockInit ==
    /\ PipelineInit
    /\ router = "idle"
    /\ embedder = "idle"
    /\ upserter = "idle"
    /\ built = {}
    /\ api = "idle"
    /\ snapshot = "idle"
    /\ locks = [holder |-> "none", ip |-> 1, in_call |-> None,
                client |-> [c \in LockClients |-> "idle"]]

LockFrame ==
    UNCHANGED <<pipeline_vars, router, embedder, upserter, built, api, snapshot>>

Running == locks.ip \in DOMAIN ProcessJobSteps

\* with JOB_STORE_LOCK: entry, when the lock is free
RunnerAcquire ==
    /\ Running /\ locks.in_call = None
    /\ ProcessJobSteps[locks.ip].op = "acquire"
    /\ locks.holder = "none"
    /\ locks' = [locks EXCEPT !.holder = "process_job", !.ip = @ + 1]
    /\ LockFrame

\* a read or write of the record, or the end of a with block
RunnerAccess ==
    /\ Running /\ locks.in_call = None
    /\ ProcessJobSteps[locks.ip].op \in {"read", "write", "release"}
    /\ locks' = [locks EXCEPT
                   !.holder = IF ProcessJobSteps[locks.ip].op = "release"
                              THEN "none" ELSE @,
                   !.ip = @ + 1]
    /\ LockFrame

\* an external call starts
RunnerCall ==
    /\ Running /\ locks.in_call = None
    /\ ProcessJobSteps[locks.ip].op = "call"
    /\ locks' = [locks EXCEPT !.in_call = Some(ProcessJobSteps[locks.ip].what)]
    /\ LockFrame

\* the branch of lines 186-189 is not taken
RunnerSkipFallback ==
    /\ Running /\ locks.in_call = None
    /\ ProcessJobSteps[locks.ip] = Step("acquire", "fallback")
    /\ locks' = [locks EXCEPT !.ip = @ + 3]
    /\ LockFrame

\* the external call returns, or raises: a with block left by an exception
\* releases the lock, and control goes to the except clause
RunnerCallEnds ==
    /\ Running /\ locks.in_call # None
    /\ \/ locks' = [locks EXCEPT !.in_call = None, !.ip = @ + 1]
       \/ locks' = [locks EXCEPT
                      !.in_call = None,
                      !.holder = IF @ = "process_job" THEN "none" ELSE @,
                      !.ip = HandlerStart(ProcessJobSteps)]
    /\ LockFrame

\* return
RunnerReturn ==
    /\ Running /\ locks.in_call = None
    /\ ProcessJobSteps[locks.ip].op = "return"
    /\ locks' = [locks EXCEPT !.ip = 0]
    /\ LockFrame

\* a request thread reaches with JOB_STORE_LOCK
ClientArrives(c) ==
    /\ locks.client[c] = "idle"
    /\ locks' = [locks EXCEPT !.client[c] = "waiting"]
    /\ LockFrame

\* it takes the free lock
ClientAcquire(c) ==
    /\ locks.client[c] = "waiting"
    /\ locks.holder = "none"
    /\ locks' = [locks EXCEPT !.holder = c, !.client[c] = "held"]
    /\ LockFrame

\* JOB_STORE.get / JOB_STORE[job_id] = record; JOB_QUEUE.append, then release
ClientRelease(c) ==
    /\ locks.client[c] = "held"
    /\ locks' = [locks EXCEPT !.holder = "none", !.client[c] = "idle"]
    /\ LockFrame

LockNext ==
    \/ RunnerAcquire
    \/ RunnerAccess
    \/ RunnerCall
    \/ RunnerSkipFallback
    \/ RunnerCallEnds
    \/ RunnerReturn
    \/ \E c \in LockClients : ClientArrives(c)
    \/ \E c \in LockClients : ClientAcquire(c)
    \/ \E c \in LockClients : ClientRelease(c)

SpecLock == LockInit /\ [][LockNext]_vars

\* the operations process_job_with_limit's thread may block in
BlockingCalls ==
    {"parse_file", "classify", "embed_texts", "time.sleep", "upsert_vectors",
     "cleanup_job_files"}

\* C40: process_job holds JOB_STORE_LOCK only while it reads the record or
\* writes one of its fields, never during parsing, classification,
\* embedding, the sleep between batches, upserting or cleanup; a thread
\* waiting in get_job_record or add_file_to_queue while such a call runs
\* finds the lock free or held by the other request thread.
C40_LockNotHeldAcrossCalls ==
    /\ locks.in_call # None =>
          /\ locks.in_call[1] \in BlockingCalls
          /\ locks.holder # "process_job"
    /\ (locks.holder = "process_job" /\ locks.ip \in DOMAIN ProcessJobSteps) =>
          ProcessJobSteps[locks.ip].op \in {"read", "write", "release"}
    /\ \A c \in LockClients :
          (locks.client[c] = "waiting" /\ locks.in_call # None) =>
              locks.holder \in {"none"} \cup (LockClients \ {c})

\* a status request waits for the lock, which the upload holds, while
\* process_job is inside upsert_vectors
C40_Witness ==
    /\ locks.in_call = Some("upsert_vectors")
    /\ locks.client["get_job_record"] = "waiting"
    /\ locks.holder = "add_file_to_queue"

====
